---- MODULE Spec2Model ----
(***************************************************************************)
(* Verification model of the trade dashboard: the Home and TradeByState    *)
(* pages (filters and aggregators), the LineChart zoom behaviour, the      *)
(* ChartCard range-scoped CSV export, the chart renderers' draw effect and *)
(* the CSV serializer.                                                     *)
(*                                                                         *)
(* Spec         Home page: mode selection, resize, zoom on the trends card *)
(* SpecState    TradeByState page: filters, resize, zoom on the trends card*)
(* SpecAgg      the aggregators of both pages over arbitrary rows          *)
(* SpecCsv      downloadCsv over arbitrary field values                    *)
(* SpecFilter   the range filter of ChartCard over arbitrary payload arrays*)
(* SpecApp      the app shell: chat drawer, fullscreen, navigation         *)
(* SpecTips     the tooltip elements the chart effects create              *)
(* SpecLoad     the first loadData of the store and the error boundary     *)
(* SpecCsvShape downloadCsv over rows of differing keys                    *)
(* SpecPng      exportChartPng: measuring, canvas, image load              *)
(* SpecHover    hovering the line chart of the TradeByState page           *)
(* SpecReload   overlapping loadData calls of the store                    *)
(* SpecTable    DataTable: sorting, paging, page size                      *)
(* SpecMulti    FilterMultiSelect over an option list                      *)
(* SpecClone    exportChartPng over arbitrary element trees                *)
(***************************************************************************)
EXTENDS Integers, Sequences, FiniteSets, TLC

VARIABLES
    route,            \* the mounted page: "/" (Home) or "/trade-by-state"
    btsUsState,       \* store dataset consumed by the TradeByState page
    usAggregated,     \* store dataset consumed by the Home page
    selectedMode,     \* Home page: mode selected through the donut chart
    yearFilter,       \* TradeByState page: the selected years (members of the array)
    tradeTypeFilter,  \* TradeByState page: "" | "Export" | "Import"
    modeFilter,       \* TradeByState page: the selected modes (members of the array)
    width,            \* measured container width of the charts (useChartResize)
    chart,            \* what the last LineChart draw left in the SVG and its closure
    barSvg,           \* TRUE iff the BarChart SVG element has children
    zoomRange,        \* ChartCard state of the card that holds the LineChart
    csvRows,          \* downloadCsv: the rows handed to the serializer
    csvText,          \* downloadCsv: the text put in the Blob (sequence of characters)
    csvDone,          \* downloadCsv: TRUE once a file download was triggered
    faArr,            \* filterArr: the array under test
    faRange,          \* filterArr: the visible range under test
    faOut,            \* filterArr: the array handed to DownloadButton
    faDone,           \* filterArr: TRUE once the card has rendered
    bodyOverflow,     \* document.body.style.overflow: "" or "hidden"
    isFullscreen,     \* ChartCard state: the fullscreen overlay is mounted
    fsPrev,           \* FullscreenChart: the overflow value its effect captured
    isOpen,           \* chat store: the Ask-AI drawer is open
    messages,         \* chat store: the message list
    isLoading,        \* chat store: an answer is being awaited
    streams,          \* the pending sendMessage calls: [id, q, pos]
    nextQuery,        \* number of the next sendMessage call (names its fresh ids)
    tipOf,            \* per chart instance: the tooltip element its handlers hold
    cleanupOf,        \* per chart instance: the id its pending effect cleanup removes
    bodyTips,         \* the tooltip elements attached to document.body
    draws,            \* number of effect runs so far (names elements and random ids)
    loading,          \* trade store: loadData has not finished
    error,            \* trade store: the message of the load failure, or NoError
    fetches,          \* the four d3.csv promises of loadData, per file
    hasError,         \* ErrorBoundary state
    filters,          \* trade store: the filters object
    svg,              \* exportChartPng: the measured size of the card's SVG, or NoSvg
    pending,          \* exportChartPng: the images loading, with their canvases
    downloads,        \* exportChartPng: the PNG downloads triggered, in order
    warnings,         \* exportChartPng: the console.warn messages, in order
    exports,          \* number of exportChartPng calls so far
    tooltip,          \* LineChart: the tooltip element and the last pointer position
    txBorderPorts,    \* store dataset of the border-ports page
    masterData,       \* store dataset of the commodity and mode pages
    calls,            \* the loadData calls so far: what each still awaits
    chatError,        \* chat store: the message of the last responder failure, or NoError
    tblData,          \* DataTable: the data prop
    sortKey,          \* DataTable state: the sort column, or NoKey
    sortDir,          \* DataTable state: "asc" or "desc"
    page,             \* DataTable state: the current page index
    pageSize,         \* DataTable state: rows per page
    tblFs,            \* DataTable: the instance is inside the fullscreen overlay
    tblHeight,        \* DataTable: clientHeight of the table root
    msValue,          \* FilterMultiSelect: the value prop (the selected array)
    msOptions,        \* FilterMultiSelect: the option values
    msOpen,           \* FilterMultiSelect state: the dropdown is open
    svgTree,          \* the element tree of the card's live <svg>
    cloneTree         \* the clone of the last export that reached the image

vars == <<route, btsUsState, usAggregated, selectedMode, yearFilter, tradeTypeFilter,
          modeFilter, width, chart, barSvg, zoomRange,
          csvRows, csvText, csvDone, faArr, faRange, faOut, faDone,
          bodyOverflow, isFullscreen, fsPrev, isOpen,
          messages, isLoading, streams, nextQuery,
          tipOf, cleanupOf, bodyTips, draws,
          loading, error, fetches, hasError, filters,
          svg, pending, downloads, warnings, exports, tooltip,
          txBorderPorts, masterData, calls, chatError,
          tblData, sortKey, sortDir, page, pageSize, tblFs, tblHeight,
          msValue, msOptions, msOpen, svgTree, cloneTree>>

storeVars == <<route, btsUsState, usAggregated>>
pageVars == <<route, btsUsState, usAggregated, selectedMode, yearFilter,
              tradeTypeFilter, modeFilter>>
chartVars == <<width, chart, barSvg, zoomRange>>
csvVars == <<csvRows, csvText, csvDone>>
faVars == <<faArr, faRange, faOut, faDone>>
shellVars == <<bodyOverflow, isFullscreen, fsPrev, isOpen>>
chatVars == <<messages, isLoading, streams, nextQuery>>
tipVars == <<tipOf, cleanupOf, bodyTips, draws>>
dataVars == <<pageVars, chartVars, csvVars, faVars, tooltip>>
loadVars == <<loading, error, fetches>>
navVars == <<loadVars, hasError, filters>>
pngVars == <<svg, pending, downloads, warnings, exports>>
reloadVars == <<txBorderPorts, masterData, calls>>
tableVars == <<tblData, sortKey, sortDir, page, pageSize, tblFs, tblHeight>>
multiVars == <<msValue, msOptions, msOpen>>
cloneVars == <<svgTree, cloneTree>>
restVars == <<tableVars, multiVars, cloneVars>>
extVars == <<reloadVars, chatError, restVars>>
appVars == <<shellVars, chatVars, tipVars, navVars, pngVars>>

----------------------------------------------------------------------------
(* Bounds of the model *)

NumYears == 7      \* Home page: number of calendar years a dataset may span
StateYears == 3    \* TradeByState page: number of calendar years a dataset may span
MaxLen == 2        \* SpecCsv: longest text of a field value
MaxArr == 2        \* SpecFilter: longest payload array
MaxRows == 3       \* SpecAgg: longest dataset drawn from arbitrary rows
ZoomSteps == 2     \* scale k ranges over multiples of 1/ZoomSteps
MaxQueries == 3    \* SpecApp: number of questions sent to the chat
MaxDraws == 4      \* SpecTips: number of effect runs of the charts
MaxExports == 2    \* SpecPng: number of PNG exports
MaxCalls == 2      \* SpecReload: number of loadData calls
MaxTableRows == 3  \* SpecTable: length of the table's data
MaxOptions == 4    \* SpecMulti: number of options of the filter
MaxChildren == 2   \* SpecClone: groups under the <svg>
MaxGrandchildren == 1 \* SpecClone: elements under a group

(* measured container widths: not yet measured or hidden, and one laid-out width *)
Widths == {0, 112}

(* JavaScript null. A null Year is carried as NullYear, a null text as "". *)
Null == [null |-> TRUE]
NullYear == 0 - 1
NullText == ""

(* Abstract-to-number coercion of a nullable number in a comparison. *)
ToNumber(v) == IF v = NullYear THEN 0 ELSE v

Min(S) == CHOOSE m \in S : \A n \in S : m <= n
Max(S) == CHOOSE m \in S : \A n \in S : n <= m

Take(s, n) == SubSeq(s, 1, IF Len(s) < n THEN Len(s) ELSE n)

----------------------------------------------------------------------------
(* TradeByState page: filters and aggregators *)

(* years option list: distinct finite Number(d.Year), descending *)
YearOptions(ds) == {ToNumber(ds[i].Year) : i \in DOMAIN ds}

(* modes option list: distinct truthy d.Mode *)
ModeOptions(ds) == {ds[i].Mode : i \in DOMAIN ds} \ {NullText}

(* String(d.Year): the text of a null year is "null", which is no option *)
PassesYear(d, yf) == yf = {} \/ (d.Year # NullYear /\ d.Year \in yf)

PassesType(d, tf) == tf = "" \/ d.TradeType = tf

PassesMode(d, mf) == mf = {} \/ d.Mode \in mf

(* variant: the mode filter is not applied *)
PassesNoMode(d, yf, tf, mf) == PassesYear(d, yf) /\ PassesType(d, tf)

Passes(d, yf, tf, mf) == PassesYear(d, yf) /\ PassesType(d, tf) /\ PassesMode(d, mf)

filteredOf(ds, yf, tf, mf) == SelectSeq(ds, LAMBDA d : Passes(d, yf, tf, mf))

filtered == filteredOf(btsUsState, yearFilter, tradeTypeFilter, modeFilter)

activeFilters ==
    (IF yearFilter # {} THEN 1 ELSE 0)
  + (IF tradeTypeFilter # "" THEN 1 ELSE 0)
  + (IF modeFilter # {} THEN 1 ELSE 0)

(* variant: a later row replaces the running sum *)
AddLabelOverwrite(acc, label, v) ==
    IF \E i \in DOMAIN acc : acc[i].label = label
    THEN LET i == CHOOSE j \in DOMAIN acc : acc[j].label = label
         IN  [acc EXCEPT ![i].value = v]
    ELSE Append(acc, [label |-> label, value |-> v])

(* Map accumulation in insertion order: label -> running sum *)
AddLabel(acc, label, v) ==
    IF \E i \in DOMAIN acc : acc[i].label = label
    THEN LET i == CHOOSE j \in DOMAIN acc : acc[j].label = label
         IN  [acc EXCEPT ![i].value = @ + v]
    ELSE Append(acc, [label |-> label, value |-> v])

(* Array.prototype.sort((a, b) => b.value - a.value): stable, descending *)
InsertDesc(sorted, e) ==
    LET n == Cardinality({i \in DOMAIN sorted : sorted[i].value >= e.value})
    IN  SubSeq(sorted, 1, n) \o <<e>> \o SubSeq(sorted, n + 1, Len(sorted))

RECURSIVE SortDesc(_)
SortDesc(s) ==
    IF s = <<>> THEN <<>>
    ELSE InsertDesc(SortDesc(SubSeq(s, 1, Len(s) - 1)), s[Len(s)])

RECURSIVE ByState(_, _)
ByState(rows, acc) ==
    IF rows = <<>> THEN acc
    ELSE LET d == Head(rows)
         IN  IF d.State = NullText THEN ByState(Tail(rows), acc)
             ELSE ByState(Tail(rows), AddLabel(acc, d.State, d.TradeValue))

topStatesOf(rows) == SortDesc(ByState(rows, <<>>))

topStates == topStatesOf(filtered)

Labels(s) == {s[i].label : i \in DOMAIN s}

AddStateYear(acc, d) ==
    IF \E i \in DOMAIN acc : acc[i].State = d.State /\ acc[i].year = d.Year
    THEN LET i == CHOOSE j \in DOMAIN acc : acc[j].State = d.State /\ acc[j].year = d.Year
         IN  [acc EXCEPT ![i].value = @ + d.TradeValue]
    ELSE Append(acc, [year |-> d.Year, State |-> d.State, value |-> d.TradeValue])

RECURSIVE ByStateYear(_, _, _, _, _)
ByStateYear(rows, top5, tf, mf, acc) ==
    IF rows = <<>> THEN acc
    ELSE LET d == Head(rows)
         IN  IF d.State \notin top5 \/ ~PassesType(d, tf) \/ ~PassesMode(d, mf)
             THEN ByStateYear(Tail(rows), top5, tf, mf, acc)
             ELSE ByStateYear(Tail(rows), top5, tf, mf, AddStateYear(acc, d))

stateTrendsOf(ds, top, tf, mf) == ByStateYear(ds, Labels(Take(top, 5)), tf, mf, <<>>)

stateTrends == stateTrendsOf(btsUsState, topStates, tradeTypeFilter, modeFilter)

(* data prop of the BarChart in the "Trade by State" card *)
barDataOf(top) == Take(top, 15)

barData == barDataOf(topStates)

(* the two chart data props as the page computes them from given filter values *)
trendsFor(ds, yf, tf, mf) ==
    stateTrendsOf(ds, topStatesOf(filteredOf(ds, yf, tf, mf)), tf, mf)

barFor(ds, yf, tf, mf) == barDataOf(topStatesOf(filteredOf(ds, yf, tf, mf)))

----------------------------------------------------------------------------
(* LineChart: what one run of the draw effect computes *)

XValues(data) == {data[i].year : i \in DOMAIN data}

uniqueXOf(data) == Cardinality(XValues(data))

CeilDiv(a, b) == 0 - ((0 - a) \div b)

(* variant: the quotient is rounded down *)
maxZoomOfFloor(data) == IF uniqueXOf(data) > 3 THEN uniqueXOf(data) \div 3 ELSE 1

maxZoomOf(data) == IF uniqueXOf(data) > 3 THEN CeilDiv(uniqueXOf(data), 3) ELSE 1

innerWOf(w) == IF w - 80 - 28 < 1 THEN 1 ELSE w - 80 - 28

NotDrawn == [drawn |-> FALSE, xmin |-> 0, xmax |-> 0, innerW |-> 0, maxZoom |-> 1,
             zoomOn |-> FALSE, kn |-> ZoomSteps, tx |-> 0, resetShown |-> FALSE,
             handled |-> FALSE]

(* d3.extent skips null; the overlay is a new element, so its transform is the identity *)
Drawn(data, w) ==
    LET xs == XValues(data) \ {NullYear}
    IN  [drawn |-> TRUE,
         xmin |-> IF xs = {} THEN 0 ELSE Min(xs),
         xmax |-> IF xs = {} THEN 0 ELSE Max(xs),
         innerW |-> innerWOf(w),
         maxZoom |-> maxZoomOf(data),
         zoomOn |-> maxZoomOf(data) > 1,
         kn |-> ZoomSteps, tx |-> 0, resetShown |-> FALSE, handled |-> FALSE]

(* useEffect body: early return leaves the SVG and its handlers as they were *)
LineEffect(prev, data, w) ==
    IF Len(data) = 0 \/ w = 0 THEN prev ELSE Drawn(data, w)

BarEffect(prevSvg, data, w) ==
    IF Len(data) = 0 \/ w = 0 THEN prevSvg ELSE TRUE

(* variant: panning is not held within the plot area *)
ValidTransformUnclamped(c, kn, tx) ==
    /\ kn \in ZoomSteps..(c.maxZoom * ZoomSteps)
    /\ tx \in (0 - c.innerW * c.maxZoom)..0

(* Transforms d3.zoom admits: scaleExtent [1, maxZoom], translateExtent = extent *)
ValidTransform(c, kn, tx) ==
    /\ kn \in ZoomSteps..(c.maxZoom * ZoomSteps)
    /\ tx \in (0 - c.innerW * c.maxZoom)..0
    /\ (0 - tx) * ZoomSteps <= c.innerW * (kn - ZoomSteps)

(* t.rescaleX(x0).domain() = [num/den of start, num/den of end] as exact fractions
   over the common denominator kn * innerW *)
DomainDen(c, kn) == kn * c.innerW
DomainStartNum(c, kn, tx) ==
    c.xmin * DomainDen(c, kn) + (c.xmax - c.xmin) * (0 - tx) * ZoomSteps
DomainEndNum(c, kn, tx) ==
    c.xmin * DomainDen(c, kn) + (c.xmax - c.xmin) * (c.innerW - tx) * ZoomSteps

FloorDiv(a, b) == a \div b

(* variant: floor and ceil exchanged *)
ReportedOutward(c, kn, tx) ==
    IF kn > ZoomSteps
    THEN [xKey |-> "year",
          min |-> FloorDiv(DomainStartNum(c, kn, tx), DomainDen(c, kn)),
          max |-> CeilDiv(DomainEndNum(c, kn, tx), DomainDen(c, kn))]
    ELSE Null

(* variant: the full domain is reported at k = 1 instead of null *)
ReportedAlways(c, kn, tx) ==
    [xKey |-> "year",
     min |-> CeilDiv(DomainStartNum(c, kn, tx), DomainDen(c, kn)),
     max |-> FloorDiv(DomainEndNum(c, kn, tx), DomainDen(c, kn))]

(* the value handed to setZoomRange by the zoom handler *)
Reported(c, kn, tx) ==
    IF kn > ZoomSteps
    THEN [xKey |-> "year",
          min |-> CeilDiv(DomainStartNum(c, kn, tx), DomainDen(c, kn)),
          max |-> FloorDiv(DomainEndNum(c, kn, tx), DomainDen(c, kn))]
    ELSE Null

----------------------------------------------------------------------------
(* ChartCard: range-scoped download payload *)

(* xKey.charAt(0).toUpperCase() + xKey.slice(1), on the key names in use *)
Capitalize(s) ==
    CASE s = "year" -> "Year"
      [] s = "label" -> "Label"
      [] s = "value" -> "Value"
      [] OTHER -> s

HasKey(row, key) == key \in DOMAIN row

(* variant: the capitalized field is tried first *)
PickKeyCapFirst(arr, xKey) ==
    IF HasKey(arr[1], Capitalize(xKey)) THEN Capitalize(xKey)
    ELSE IF HasKey(arr[1], xKey) THEN xKey
    ELSE ""

PickKey(arr, xKey) ==
    IF HasKey(arr[1], xKey) THEN xKey
    ELSE IF HasKey(arr[1], Capitalize(xKey)) THEN Capitalize(xKey)
    ELSE ""

(* variant: the upper end of the range is not applied *)
filterArrLowerOnly(arr, range) ==
    IF Len(arr) = 0 THEN arr
    ELSE LET key == PickKey(arr, range.xKey)
         IN  IF key = "" THEN arr
             ELSE SelectSeq(arr, LAMBDA d : ToNumber(d[key]) >= range.min)

filterArr(arr, range) ==
    IF Len(arr) = 0 THEN arr
    ELSE LET key == PickKey(arr, range.xKey)
         IN  IF key = "" THEN arr
             ELSE SelectSeq(arr, LAMBDA d :
                      ToNumber(d[key]) >= range.min /\ ToNumber(d[key]) <= range.max)

effectiveData(arr, range) == IF range = Null THEN arr ELSE filterArr(arr, range)

----------------------------------------------------------------------------
(* downloadCsv: text is a sequence of characters *)

Comma == ","
Quote == "\""
LF == "\n"
CR == "\r"

CsvKeys == <<"k1", "k2">>

KeyChars(k) == IF k = "k1" THEN <<"k", "1">> ELSE <<"k", "2">>

(* Object.keys(data[0]) *)
KeysOf(row) == SelectSeq(CsvKeys, LAMBDA k : k \in DOMAIN row)

(* a null or undefined field value, set apart from every text *)
NoValue == <<"null">>

(* row[k]: undefined when the row has no such key *)
Field(row, k) == IF k \in DOMAIN row THEN row[k] ELSE NoValue

RECURSIVE DoubleQuotes(_)
DoubleQuotes(str) ==
    IF str = <<>> THEN <<>>
    ELSE (IF Head(str) = Quote THEN <<Quote, Quote>> ELSE <<Head(str)>>)
         \o DoubleQuotes(Tail(str))

(* variant: a carriage return does not make the value quoted *)
NeedsQuotesNoCR(str) == \E i \in DOMAIN str : str[i] \in {Comma, Quote, LF}

(* /[,"\n\r]/.test(str) *)
NeedsQuotes(str) == \E i \in DOMAIN str : str[i] \in {Comma, Quote, LF, CR}

(* the cell written for one value *)
Cell(v) ==
    IF v = NoValue THEN <<>>
    ELSE IF NeedsQuotes(v) THEN <<Quote>> \o DoubleQuotes(v) \o <<Quote>>
    ELSE v

RECURSIVE Join(_, _)
Join(parts, sep) ==
    IF parts = <<>> THEN <<>>
    ELSE IF Len(parts) = 1 THEN parts[1]
    ELSE parts[1] \o <<sep>> \o Join(Tail(parts), sep)

(* the byte-order mark *)
BOM == "BOM"

(* variant: every row is written with its own keys *)
CsvOfOwnKeys(data) ==
    LET keys == KeysOf(data[1])
        header == Join([j \in DOMAIN keys |-> KeyChars(keys[j])], Comma)
        line(row) == Join([j \in DOMAIN KeysOf(row) |->
                              Cell(Field(row, KeysOf(row)[j]))], Comma)
    IN  Join(<<header>> \o [i \in DOMAIN data |-> line(data[i])], LF)

(* the text after the byte-order mark *)
CsvOf(data) ==
    LET keys == KeysOf(data[1])
        header == Join([j \in DOMAIN keys |-> KeyChars(keys[j])], Comma)
        line(row) == Join([j \in DOMAIN keys |-> Cell(Field(row, keys[j]))], Comma)
    IN  Join(<<header>> \o [i \in DOMAIN data |-> line(data[i])], LF)

(* the content of the Blob *)
BlobOf(data) == <<BOM>> \o CsvOf(data)

----------------------------------------------------------------------------
(* Home page: aggregators *)

PassesSelected(d, sel) == sel = NullText \/ d.Mode = sel

(* source of trendLineData and detail payload of the trends card *)
homeSourceOf(ds, sel) == SelectSeq(ds, LAMBDA d : PassesSelected(d, sel))

AddYearType(acc, d) ==
    IF \E i \in DOMAIN acc : acc[i].year = d.Year /\ acc[i].TradeType = d.TradeType
    THEN LET i == CHOOSE j \in DOMAIN acc :
                      acc[j].year = d.Year /\ acc[j].TradeType = d.TradeType
         IN  [acc EXCEPT ![i].value = @ + d.TradeValue]
    ELSE Append(acc, [year |-> d.Year, value |-> d.TradeValue, TradeType |-> d.TradeType])

RECURSIVE ByYearType(_, _)
ByYearType(rows, acc) ==
    IF rows = <<>> THEN acc
    ELSE ByYearType(Tail(rows), AddYearType(acc, Head(rows)))

(* Array.prototype.sort((a, b) => a.year - b.year): stable, ascending, null as 0 *)
InsertByYear(sorted, e) ==
    LET n == Cardinality({i \in DOMAIN sorted :
                             ToNumber(sorted[i].year) <= ToNumber(e.year)})
    IN  SubSeq(sorted, 1, n) \o <<e>> \o SubSeq(sorted, n + 1, Len(sorted))

RECURSIVE SortByYear(_)
SortByYear(s) ==
    IF s = <<>> THEN <<>>
    ELSE InsertByYear(SortByYear(SubSeq(s, 1, Len(s) - 1)), s[Len(s)])

trendLineDataOf(ds, sel) == SortByYear(ByYearType(homeSourceOf(ds, sel), <<>>))

trendLineData == trendLineDataOf(usAggregated, selectedMode)

RECURSIVE ByMode(_, _)
ByMode(rows, acc) ==
    IF rows = <<>> THEN acc
    ELSE LET d == Head(rows)
         IN  IF d.Mode = NullText THEN ByMode(Tail(rows), acc)
             ELSE ByMode(Tail(rows), AddLabel(acc, d.Mode, d.TradeValue))

modeDataOf(ds) == SortDesc(ByMode(ds, <<>>))

modeData == modeDataOf(usAggregated)

(* Home topStates: ranking of the mode-filtered rows, cut to ten *)
homeTopStatesOf(ds, sel) ==
    Take(SelectSeq(topStatesOf(homeSourceOf(ds, sel)),
                   LAMBDA e : e.label # "undefined"), 10)

----------------------------------------------------------------------------
(* The card that holds the LineChart on the mounted page *)

lineDataOf(r, us, sel, bts, yf, tf, mf) ==
    IF r = "/" THEN trendLineDataOf(us, sel) ELSE trendsFor(bts, yf, tf, mf)

lineData == lineDataOf(route, usAggregated, selectedMode, btsUsState,
                       yearFilter, tradeTypeFilter, modeFilter)

(* downloadData prop of that card *)
summaryData == lineData
detailData == IF route = "/" THEN homeSourceOf(usAggregated, selectedMode) ELSE filtered

(* what DownloadButton receives *)
summaryExport == effectiveData(summaryData, zoomRange)
detailExport == effectiveData(detailData, zoomRange)

----------------------------------------------------------------------------
(* Datasets *)

TradeTypeOf(y) == IF y % 2 = 0 THEN "Export" ELSE "Import"

TxRow(y) == [Year |-> y, TradeType |-> TradeTypeOf(y), Mode |-> "Truck",
             State |-> "TX", TradeValue |-> 1 + (y % 2)]

CaRow(y) == [Year |-> y, TradeType |-> "Export", Mode |-> "Rail",
             State |-> "CA", TradeValue |-> 2]

RECURSIVE TxRows(_, _)
TxRows(lo, hi) == IF lo > hi THEN <<>> ELSE <<TxRow(lo)>> \o TxRows(lo + 1, hi)

(* TX truck rows for a run of years from 2020 on, optionally followed by one CA
   rail row dated a later year or carrying a null year *)
StateDatasets ==
    {TxRows(2020, hi) : hi \in 2019..(2019 + StateYears)}
    \cup {TxRows(2020, hi) \o <<CaRow(c)>> :
            hi \in 2019..(2019 + StateYears), c \in {2020 + StateYears, NullYear}}

TruckRow(y) == [Year |-> y, TradeType |-> "Export", Mode |-> "Truck",
                State |-> "TX", TradeValue |-> 1]

RailRow(y) == [Year |-> y, TradeType |-> "Import", Mode |-> "Rail",
               State |-> "CA", TradeValue |-> 2]

RECURSIVE TruckRows(_, _)
TruckRows(lo, hi) == IF lo > hi THEN <<>> ELSE <<TruckRow(lo)>> \o TruckRows(lo + 1, hi)

RECURSIVE RailRows(_, _)
RailRows(lo, hi) == IF lo > hi THEN <<>> ELSE <<RailRow(lo)>> \o RailRows(lo + 1, hi)

(* truck export rows for a run of years from 2020 on (the first year twice), then
   rail import rows for a run of years up to the last one, or one rail row with a
   null year *)
HomeDatasets ==
    {(IF hi >= 2020 THEN <<TruckRow(2020)>> ELSE <<>>) \o TruckRows(2020, hi) \o rail :
        hi \in 2019..(2019 + NumYears),
        rail \in {RailRows(lo, 2019 + NumYears) : lo \in 2020..(2020 + NumYears)}
                 \cup {<<RailRow(NullYear)>>}}

(* rows of every shape the loader can produce: with and without a state, a mode
   and a year *)
AggRows ==
    { [Year |-> 2020, TradeType |-> "Export", Mode |-> "Truck", State |-> "TX",
       TradeValue |-> 1],
      [Year |-> 2021, TradeType |-> "Import", Mode |-> "Rail", State |-> "TX",
       TradeValue |-> 2],
      [Year |-> 2021, TradeType |-> "Export", Mode |-> "Truck", State |-> "CA",
       TradeValue |-> 4],
      [Year |-> 2020, TradeType |-> "Export", Mode |-> "Truck", State |-> NullText,
       TradeValue |-> 8],
      [Year |-> 2020, TradeType |-> "Import", Mode |-> NullText, State |-> "TX",
       TradeValue |-> 16],
      [Year |-> NullYear, TradeType |-> "Export", Mode |-> "Rail", State |-> "CA",
       TradeValue |-> 32] }

RECURSIVE SeqsUpTo(_, _)
SeqsUpTo(S, n) ==
    IF n = 0 THEN {<<>>}
    ELSE LET shorter == SeqsUpTo(S, n - 1)
         IN  shorter \cup {Append(q, r) : q \in shorter, r \in S}

StateNames == <<"AZ", "CA", "NM", "TX", "NY", "FL">>

(* one truck export row for each of six states, 2020 and 2021 alternating *)
SixStates ==
    [i \in 1..6 |-> [Year |-> 2020 + (i % 2), TradeType |-> "Export", Mode |-> "Truck",
                     State |-> StateNames[i], TradeValue |-> 7 - i]]

AggDatasets == SeqsUpTo(AggRows, MaxRows) \cup {SixStates}

CsvChars == {"a", Comma, Quote, LF, CR}

(* field values: null, or a text of at most MaxLen characters *)
CsvValues == {NoValue} \cup SeqsUpTo(CsvChars, MaxLen)

(* null, the empty text and the texts of one character *)
CsvShortValues == {NoValue} \cup SeqsUpTo(CsvChars, 1)

(* a long value next to a short one, in either order *)
CsvPairs ==
    {<<a, b>> : a \in CsvValues, b \in CsvShortValues}
    \cup {<<a, b>> : a \in CsvShortValues, b \in CsvValues}

(* no rows; one row of one or two columns; two rows of one column *)
CsvInputs ==
    {<<>>}
    \cup {<<[k1 |-> a]>> : a \in CsvValues}
    \cup {<<[k1 |-> v[1], k2 |-> v[2]]>> : v \in CsvPairs}
    \cup {<<[k1 |-> v[1]], [k1 |-> v[2]]>> : v \in CsvPairs}

(* rows that need not share their keys: each holds k1, k2 or both, with a
   null, a plain or a quoted value *)
CsvRowValues == {NoValue, <<"a">>, <<Comma>>}
CsvShapeRows ==
    {[k1 |-> a] : a \in CsvRowValues}
    \cup {[k2 |-> a] : a \in CsvRowValues}
    \cup {[k1 |-> a, k2 |-> b] : a, b \in CsvRowValues}
CsvShapeInputs == SeqsUpTo(CsvShapeRows, MaxArr)

FaValues == {NullYear, 2020, 2021}

(* arrays of rows of one shape: the axis field under the exact key, under the
   capitalized key, under both, or under neither *)
FaShapes ==
    { {[year |-> y] : y \in FaValues},
      {[Year |-> y] : y \in FaValues},
      {[year |-> y, Year |-> z] : y \in FaValues, z \in FaValues},
      {[label |-> "TX", value |-> y] : y \in FaValues} }

FaInputs == UNION {SeqsUpTo(shape, MaxArr) : shape \in FaShapes}

FaRanges ==
    {Null} \cup {[xKey |-> k, min |-> lo, max |-> hi] :
                    k \in {"year", "value"}, lo \in 2020..2021, hi \in 2020..2021}

----------------------------------------------------------------------------
(* The trade store's load state and filters, the router and the boundary *)

(* the CSV files loadData fetches *)
Files == {"us_aggregated", "tx_border_ports", "bts_us_state", "master_data"}

(* error: null, and the messages a rejected fetch carries *)
NoError == "null"
Messages == {"Failed to fetch", "404 Not Found"}

(* the routes of the application; "*" stands for any other path *)
Routes == {"/", "/trade-by-state", "/commodities", "/trade-by-mode",
           "/border-ports", "*"}

(* the store's filters object as created, and as resetFilters leaves it *)
EmptyFilters ==
    [year |-> "", tradeType |-> "", mode |-> "", state |-> "",
     commodityGroup |-> "", port |-> ""]

(* what the area inside PageWrapper shows: the boundary's fallback, or the
   page of the route, which shows a spinner while the store is loading and its
   dashboard content otherwise. No page reads the store's error. *)
PageView(r, ld, err, caught) ==
    IF caught THEN "fallback"
    ELSE IF r = "*" THEN "not-found"
    ELSE IF ld THEN "spinner"
    ELSE "dashboard"

(* gatherPageContext().activeFilters *)
activeFiltersOf(fs) == fs

(* LineChart: the tooltip *)

(* no mousemove seen yet *)
NoPointer == 0 - 1

(* the tooltip element as created: hidden and empty *)
NoTooltip == [shown |-> FALSE, x |-> 0, names |-> {}, mx |-> NoPointer]

(* tipDiv.style.display = 'none', also the state of the element a redraw
   creates in place of the one it removes *)
HideTip(tip) == [tip EXCEPT !.shown = FALSE]

(* currentX.invert(mx) as a fraction: the visible domain mapped back from the
   pixel range [0, innerW] *)
InvertNum(c, mx) ==
    DomainStartNum(c, c.kn, c.tx) * c.innerW
    + (DomainEndNum(c, c.kn, c.tx) - DomainStartNum(c, c.kn, c.tx)) * mx
InvertDen(c) == DomainDen(c, c.kn) * c.innerW

(* Math.round of a fraction with a positive denominator: halves go up *)
Round(num, den) == FloorDiv(2 * num + den, 2 * den)

(* the series with a point at xVal: s.values.find(d => d[xKey] === xVal) *)
PointsAt(data, xVal) ==
    {data[i].State : i \in {j \in DOMAIN data : data[j].year = xVal}}

(* the overlay's mousemove handler *)
TipAt(tip, c, data, mx) ==
    LET xVal == Round(InvertNum(c, mx), InvertDen(c))
        points == PointsAt(data, xVal)
    IN  IF points = {}
        THEN [HideTip(tip) EXCEPT !.mx = mx]
        ELSE [shown |-> TRUE, x |-> xVal, names |-> points, mx |-> mx]

(* PNG export *)

(* the measured heights of the SVG: not rendered, and one laid-out height *)
SvgHeights == {0, 80}
SvgSizes == {[w |-> w, h |-> h] : w \in Widths, h \in SvgHeights}

(* Element trees of the SVG a card exports *)

(* the computed styles an element may have, and an empty inline style *)
Styles == {"a", "b"}
NoStyle == ""

(* an element: its identity, whether its class is export-ignore, its computed
   style, its inline style and its child elements *)
Element(id, ignore, css, style, children) ==
    [id |-> id, ignore |-> ignore, css |-> css, style |-> style, children |-> children]

LeafShapes == [ignore : BOOLEAN, css : Styles]
GroupShapes(g) == [ignore : BOOLEAN, css : Styles, kids : SeqsUpTo(LeafShapes, g)]
TreeShapes(k, g) == SeqsUpTo(GroupShapes(g), k)

(* the live <svg> over the groups of a shape and their children *)
SvgOf(shape) ==
    Element(0, FALSE, "a", NoStyle,
        [i \in 1..Len(shape) |->
            Element(10 * i, shape[i].ignore, shape[i].css, NoStyle,
                [j \in 1..Len(shape[i].kids) |->
                    Element(10 * i + j, shape[i].kids[j].ignore,
                            shape[i].kids[j].css, NoStyle, <<>>)])])

(* an <svg> without children *)
EmptySvg == Element(0, FALSE, "a", NoStyle, <<>>)

(* clone.querySelectorAll('.export-ignore').forEach((el) => el.remove()) *)
RECURSIVE removeIgnored(_)
removeIgnored(node) ==
    LET kept == SelectSeq(node.children, LAMBDA c : ~c.ignore)
    IN  [node EXCEPT !.children = [i \in 1..Len(kept) |-> removeIgnored(kept[i])]]

(* inlineStyles(source, target): the computed style of source is set on target,
   then child i of source is paired with child i of target *)
RECURSIVE inlineStyles(_, _)
inlineStyles(source, target) ==
    [target EXCEPT
        !.style = source.css,
        !.children = [i \in 1..Len(target.children) |->
                         IF i <= Len(source.children)
                         THEN inlineStyles(source.children[i], target.children[i])
                         ELSE target.children[i]]]

(* exportChartPng, lines 99-117: svg.cloneNode(true) is a tree equal to the
   live one; the flagged elements are removed from it and then the styles are
   inlined from the live tree *)
preparedClone(svgEl) == inlineStyles(svgEl, removeIgnored(svgEl))

(* container.querySelector('svg') found nothing *)
NoSvg == [w |-> 0 - 1, h |-> 0 - 1]

(* the title and subtitle props of a card: absent or empty, or a text *)
Titles == {"", "T", "Trade"}
Subtitles == {"", "s"}

scale == 2
padding == 20
titleFontSize == 18
subtitleFontSize == 13
gapAfterHeader == 12

(* lengths in tenths of a pixel: titleFontSize * 1.3 and subtitleFontSize * 1.4 *)
titleLineHeight == titleFontSize * 13
subtitleLineHeight == subtitleFontSize * 14

(* variant: the header grows with every character of the title *)
headerHeightPerChar(title, subtitle) ==
    (IF title = "T" THEN titleLineHeight
     ELSE IF title = "Trade" THEN 5 * titleLineHeight ELSE 0)
    + (IF subtitle # "" THEN subtitleLineHeight ELSE 0)
    + (IF title # "" \/ subtitle # "" THEN gapAfterHeader * 10 ELSE 0)

(* headerHeight, in tenths of a pixel *)
headerHeight(title, subtitle) ==
    (IF title # "" THEN titleLineHeight ELSE 0)
    + (IF subtitle # "" THEN subtitleLineHeight ELSE 0)
    + (IF title # "" \/ subtitle # "" THEN gapAfterHeader * 10 ELSE 0)

(* canvas.width and canvas.height: the assignment truncates to an integer *)
canvasWidth(w) == (w + padding * 2) * scale
canvasHeight(h, title, subtitle) ==
    (((h + padding * 2) * 10 + headerHeight(title, subtitle)) * scale) \div 10

(* variant: only a zero width stops the export *)
ZeroWidth(w, h) == w = 0

(* the zero-dimension guard: !width || !height *)
ZeroDims(w, h) == w = 0 \/ h = 0

ZeroWarning == "PNG export: SVG has zero dimensions"
LoadWarning == "PNG export: failed to load SVG as image"

InitPng ==
    /\ svg = NoSvg
    /\ pending = {}
    /\ downloads = <<>>
    /\ warnings = <<>>
    /\ exports = 0

(* Tooltip elements of the charts *)

(* the chart components that create a tooltip element, and the two places a
   card renders its chart: in the card and in its fullscreen copy *)
TipKinds == {"line", "treemap", "stacked"}
Slots == {"card", "fullscreen"}
Charts == TipKinds \X Slots

(* an element id: prefix and random suffix (0: none) *)
NoTip == [id |-> <<"", 0>>, n |-> 0]

(* the id under which the effect run number r of a chart of kind k looks its
   tooltip element up: the treemap uses a fixed id, the other two a random
   suffix drawn in the run *)
TipId(k, r) ==
    IF k = "treemap" THEN <<"treemap-tooltip", 0>>
    ELSE IF k = "line" THEN <<"line-chart-tooltip", r>>
    ELSE <<"stacked-bar-tooltip", r>>

(* document.getElementById over the tooltip elements of the body *)
ById(body, id) == {e \in body : e.id = id}

(* the effect cleanup: document.getElementById(tipId)?.remove() *)
TipCleanup(body, id) == body \ ById(body, id)

(* the element the effect run r holds afterwards: the one found, else a new
   one *)
TipFound(body, k, r) ==
    IF ById(body, TipId(k, r)) # {}
    THEN CHOOSE e \in ById(body, TipId(k, r)) : TRUE
    ELSE [id |-> TipId(k, r), n |-> r]

(* Initial states: store loaded, page mounted, nothing measured or drawn yet *)

InitPage ==
    /\ selectedMode = NullText
    /\ yearFilter = {}
    /\ tradeTypeFilter = ""
    /\ modeFilter = {}

InitCharts ==
    /\ width = 0
    /\ chart = NotDrawn
    /\ barSvg = FALSE
    /\ zoomRange = Null
    /\ tooltip = NoTooltip

InitCsv ==
    /\ csvRows = <<>>
    /\ csvText = <<>>
    /\ csvDone = FALSE

InitFa ==
    /\ faArr = <<>>
    /\ faRange = Null
    /\ faOut = <<>>
    /\ faDone = FALSE

(* nothing open over the page, no chat yet *)
InitShell ==
    /\ bodyOverflow = ""
    /\ isFullscreen = FALSE
    /\ fsPrev = ""
    /\ isOpen = FALSE

InitChat ==
    /\ messages = <<>>
    /\ isLoading = FALSE
    /\ streams = {}
    /\ nextQuery = 1

InitTips ==
    /\ tipOf = [c \in Charts |-> NoTip]
    /\ cleanupOf = [c \in Charts |-> NoTip.id]
    /\ bodyTips = {}
    /\ draws = 0

(* the store has loaded its four files, no page has thrown, no store filter set *)
InitNav ==
    /\ loading = FALSE
    /\ error = NoError
    /\ fetches = [f \in Files |-> "resolved"]
    /\ hasError = FALSE
    /\ filters = EmptyFilters

(* the parts of the application a specification does not exercise stay idle *)
(* the datasets a specification does not read are not loaded, and no further
   loadData call has been made *)
InitReloadIdle ==
    /\ txBorderPorts = <<>>
    /\ masterData = <<>>
    /\ calls = <<>>

(* no table is mounted *)
InitTableIdle ==
    /\ tblData = <<>>
    /\ sortKey = "null"
    /\ sortDir = "asc"
    /\ page = 0
    /\ pageSize = 10
    /\ tblFs = FALSE
    /\ tblHeight = 0

(* no multi-select filter is looked at *)
InitMultiIdle ==
    /\ msValue = <<>>
    /\ msOptions = <<>>
    /\ msOpen = FALSE

(* the exported <svg> has no children *)
InitCloneIdle ==
    /\ svgTree = EmptySvg
    /\ cloneTree = EmptySvg

InitRest == InitTableIdle /\ InitMultiIdle /\ InitCloneIdle

InitExt == InitReloadIdle /\ chatError = NoError /\ InitRest

InitIdle == InitShell /\ InitChat /\ InitTips /\ InitNav /\ InitPng /\ InitExt

(* Home page mounted *)
Init ==
    /\ route = "/"
    /\ usAggregated \in HomeDatasets
    /\ btsUsState = <<>>
    /\ InitPage /\ InitCharts /\ InitCsv /\ InitFa /\ InitIdle

(* TradeByState page mounted *)
InitState ==
    /\ route = "/trade-by-state"
    /\ usAggregated = <<>>
    /\ btsUsState \in StateDatasets
    /\ InitPage /\ InitCharts /\ InitCsv /\ InitFa /\ InitIdle

(* either page mounted over arbitrary rows, charts not yet measured; both store
   datasets hold the same rows *)
InitAgg ==
    /\ route \in {"/", "/trade-by-state"}
    /\ btsUsState \in AggDatasets
    /\ usAggregated = btsUsState
    /\ InitPage /\ InitCharts /\ InitCsv /\ InitFa /\ InitIdle

(* a card holds a download payload; nothing exported yet *)
InitCsvSpec ==
    /\ route = "/"
    /\ usAggregated = <<>>
    /\ btsUsState = <<>>
    /\ InitPage /\ InitCharts /\ InitFa /\ InitIdle
    /\ csvRows \in CsvInputs
    /\ csvText = <<>>
    /\ csvDone = FALSE

(* a card given one payload array and holding a visible range or none *)
InitFilter ==
    /\ route = "/"
    /\ usAggregated = <<>>
    /\ btsUsState = <<>>
    /\ InitPage /\ InitCharts /\ InitCsv /\ InitIdle
    /\ faArr \in FaInputs
    /\ faRange \in FaRanges
    /\ faOut = <<>>
    /\ faDone = FALSE

----------------------------------------------------------------------------
(* Actions *)

(* Re-render with new page state and width: the charts' effects run again.
   The BarChart tracked is the one of the "Trade by State" card. *)
Redraw(sel, yf, tf, mf, w) ==
    /\ chart' = LineEffect(chart, lineDataOf(route, usAggregated, sel, btsUsState,
                                             yf, tf, mf), w)
    /\ barSvg' = IF route = "/" THEN barSvg
                 ELSE BarEffect(barSvg, barFor(btsUsState, yf, tf, mf), w)
    /\ tooltip' = HideTip(tooltip)

(* FilterMultiSelect.toggle *)
toggle(value, val, nOptions) ==
    IF val \in value
    THEN value \ {val}
    ELSE IF Cardinality(value) + 1 = nOptions THEN {} ELSE value \cup {val}

ToggleYear(y) ==
    /\ route = "/trade-by-state"
    /\ y \in YearOptions(btsUsState)
    /\ yearFilter' = toggle(yearFilter, y, Cardinality(YearOptions(btsUsState)))
    /\ UNCHANGED <<storeVars, selectedMode, tradeTypeFilter, modeFilter>>
    /\ Redraw(selectedMode, toggle(yearFilter, y, Cardinality(YearOptions(btsUsState))),
              tradeTypeFilter, modeFilter, width)
    /\ UNCHANGED <<width, zoomRange, csvVars, faVars, appVars>>
    /\ UNCHANGED extVars

ToggleMode(m) ==
    /\ route = "/trade-by-state"
    /\ m \in ModeOptions(btsUsState)
    /\ modeFilter' = toggle(modeFilter, m, Cardinality(ModeOptions(btsUsState)))
    /\ UNCHANGED <<storeVars, selectedMode, yearFilter, tradeTypeFilter>>
    /\ Redraw(selectedMode, yearFilter, tradeTypeFilter,
              toggle(modeFilter, m, Cardinality(ModeOptions(btsUsState))), width)
    /\ UNCHANGED <<width, zoomRange, csvVars, faVars, appVars>>
    /\ UNCHANGED extVars

(* FilterSelect onChange: a <select> only fires when the value changes *)
SetTradeType(t) ==
    /\ route = "/trade-by-state"
    /\ t \in {"", "Export", "Import"}
    /\ t # tradeTypeFilter
    /\ tradeTypeFilter' = t
    /\ UNCHANGED <<storeVars, selectedMode, yearFilter, modeFilter>>
    /\ Redraw(selectedMode, yearFilter, t, modeFilter, width)
    /\ UNCHANGED <<width, zoomRange, csvVars, faVars, appVars>>
    /\ UNCHANGED extVars

(* FilterSidebar: the "Reset all filters" button is rendered *)
ResetAllShown(onResetAll, activeCount) == onResetAll /\ activeCount > 0

(* variant: the mode filter survives the reset *)
resetFiltersKeepMode ==
    /\ route = "/trade-by-state"
    /\ ResetAllShown(TRUE, activeFilters)
    /\ yearFilter' = {}
    /\ tradeTypeFilter' = ""
    /\ UNCHANGED <<storeVars, selectedMode, modeFilter>>
    /\ Redraw(selectedMode, {}, "", modeFilter, width)
    /\ UNCHANGED <<width, zoomRange, csvVars, faVars, appVars>>
    /\ UNCHANGED extVars

resetFilters ==
    /\ route = "/trade-by-state"
    /\ ResetAllShown(TRUE, activeFilters)
    /\ yearFilter' = {}
    /\ tradeTypeFilter' = ""
    /\ modeFilter' = {}
    /\ UNCHANGED <<storeVars, selectedMode>>
    /\ Redraw(selectedMode, {}, "", {}, width)
    /\ UNCHANGED <<width, zoomRange, csvVars, faVars, appVars>>
    /\ UNCHANGED extVars

(* Home: click on a donut slice; the same slice again deselects *)
handleModeClick(label) ==
    /\ route = "/"
    /\ label \in Labels(modeData)
    /\ selectedMode' = IF selectedMode = label THEN NullText ELSE label
    /\ UNCHANGED <<storeVars, yearFilter, tradeTypeFilter, modeFilter>>
    /\ Redraw(IF selectedMode = label THEN NullText ELSE label,
              yearFilter, tradeTypeFilter, modeFilter, width)
    /\ UNCHANGED <<width, zoomRange, csvVars, faVars, appVars>>
    /\ UNCHANGED extVars

(* Home: "Clear filter" in the card header, or a click outside the donut *)
ClearMode ==
    /\ route = "/"
    /\ selectedMode # NullText
    /\ selectedMode' = NullText
    /\ UNCHANGED <<storeVars, yearFilter, tradeTypeFilter, modeFilter>>
    /\ Redraw(NullText, yearFilter, tradeTypeFilter, modeFilter, width)
    /\ UNCHANGED <<width, zoomRange, csvVars, faVars, appVars>>
    /\ UNCHANGED extVars

(* ResizeObserver callback of useChartResize *)
Resize(w) ==
    /\ w \in Widths
    /\ w # width
    /\ width' = w
    /\ UNCHANGED pageVars
    /\ Redraw(selectedMode, yearFilter, tradeTypeFilter, modeFilter, w)
    /\ UNCHANGED <<zoomRange, csvVars, faVars, appVars>>
    /\ UNCHANGED extVars

(* 'zoom' event of d3.zoom (wheel, drag or a frame of the reset transition) *)
ZoomEvent(kn, tx) ==
    /\ chart.drawn
    /\ chart.zoomOn
    /\ ValidTransform(chart, kn, tx)
    /\ <<kn, tx>> # <<chart.kn, chart.tx>>
    /\ chart' = [chart EXCEPT !.kn = kn, !.tx = tx, !.resetShown = kn > ZoomSteps,
                              !.handled = TRUE]
    /\ zoomRange' = Reported(chart, kn, tx)
    /\ tooltip' = HideTip(tooltip)
    /\ UNCHANGED <<pageVars, width, barSvg, csvVars, faVars, appVars>>
    /\ UNCHANGED extVars

(* click on the "Reset zoom" control: the transition ends on the identity transform *)
ResetZoom ==
    /\ chart.drawn
    /\ chart.zoomOn
    /\ chart.resetShown
    /\ chart' = [chart EXCEPT !.kn = ZoomSteps, !.tx = 0, !.resetShown = FALSE,
                              !.handled = TRUE]
    /\ zoomRange' = Reported(chart, ZoomSteps, 0)
    /\ tooltip' = HideTip(tooltip)
    /\ UNCHANGED <<pageVars, width, barSvg, csvVars, faVars, appVars>>
    /\ UNCHANGED extVars

Next ==
    \/ \E m \in Labels(modeData) : handleModeClick(m)
    \/ ClearMode
    \/ \E w \in Widths : Resize(w)
    \/ \E kn \in ZoomSteps..(ZoomSteps * chart.maxZoom),
          tx \in (0 - chart.innerW * chart.maxZoom)..0 : ZoomEvent(kn, tx)
    \/ ResetZoom

Spec == Init /\ [][Next]_vars

NextState ==
    \/ \E y \in YearOptions(btsUsState) : ToggleYear(y)
    \/ \E m \in ModeOptions(btsUsState) : ToggleMode(m)
    \/ \E t \in {"", "Export", "Import"} : SetTradeType(t)
    \/ resetFilters
    \/ \E w \in Widths : Resize(w)
    \/ \E kn \in ZoomSteps..(ZoomSteps * chart.maxZoom),
          tx \in (0 - chart.innerW * chart.maxZoom)..0 : ZoomEvent(kn, tx)
    \/ ResetZoom

SpecState == InitState /\ [][NextState]_vars

NextAgg ==
    \/ \E y \in YearOptions(btsUsState) : ToggleYear(y)
    \/ \E m \in ModeOptions(btsUsState) : ToggleMode(m)
    \/ \E t \in {"", "Export", "Import"} : SetTradeType(t)
    \/ resetFilters
    \/ \E m \in Labels(modeData) : handleModeClick(m)
    \/ ClearMode

SpecAgg == InitAgg /\ [][NextAgg]_vars

(* downloadCsv(data): returns at once on an empty array *)
downloadCsv ==
    /\ ~csvDone
    /\ Len(csvRows) > 0
    /\ csvText' = BlobOf(csvRows)
    /\ csvDone' = TRUE
    /\ UNCHANGED <<pageVars, chartVars, csvRows, faVars, appVars, tooltip>>
    /\ UNCHANGED extVars

NextCsv == downloadCsv

(* a card holds a payload whose rows need not share their keys *)
InitCsvShape ==
    /\ route = "/"
    /\ usAggregated = <<>>
    /\ btsUsState = <<>>
    /\ InitPage /\ InitCharts /\ InitFa /\ InitIdle
    /\ csvRows \in CsvShapeInputs
    /\ csvText = <<>>
    /\ csvDone = FALSE

SpecCsvShape == InitCsvShape /\ [][NextCsv]_vars

SpecCsv == InitCsvSpec /\ [][NextCsv]_vars

(* ChartCard render: the effectiveDownloadData memo *)
effectiveDownloadData ==
    /\ ~faDone
    /\ faOut' = effectiveData(faArr, faRange)
    /\ faDone' = TRUE
    /\ UNCHANGED <<pageVars, chartVars, csvVars, faArr, faRange, appVars, tooltip>>
    /\ UNCHANGED extVars

NextFilter == effectiveDownloadData

SpecFilter == InitFilter /\ [][NextFilter]_vars

----------------------------------------------------------------------------
(* The application shell: fullscreen overlay, Ask-AI drawer, chat store *)

(* FullscreenChart mounts: its effect captures the overflow value and hides
   the page scroll *)
OpenFullscreen ==
    /\ ~isFullscreen
    /\ isFullscreen' = TRUE
    /\ fsPrev' = bodyOverflow
    /\ bodyOverflow' = "hidden"
    /\ UNCHANGED <<isOpen, chatVars>>
    /\ UNCHANGED <<dataVars, tipVars, navVars, pngVars>>
    /\ UNCHANGED extVars

(* the close control of the overlay: FullscreenChart unmounts and its cleanup
   writes the captured value back *)
CloseFullscreen ==
    /\ isFullscreen
    /\ isFullscreen' = FALSE
    /\ bodyOverflow' = fsPrev
    /\ UNCHANGED <<fsPrev, isOpen, chatVars>>
    /\ UNCHANGED <<dataVars, tipVars, navVars, pngVars>>
    /\ UNCHANGED extVars

(* the value the drawer effect leaves in body overflow once isOpen has changed:
   the cleanup of the previous run writes '', the new run writes 'hidden' when
   the drawer is open *)
DrawerEffect(open) == IF open THEN "hidden" ELSE ""

(* useChatStore.toggle, from the header or the sidebar button *)
ToggleDrawer ==
    /\ isOpen' = ~isOpen
    /\ bodyOverflow' = DrawerEffect(~isOpen)
    /\ UNCHANGED <<isFullscreen, fsPrev, chatVars>>
    /\ UNCHANGED <<dataVars, tipVars, navVars, pngVars>>
    /\ UNCHANGED extVars

(* useChatStore.close, from the backdrop or the close button of the drawer *)
CloseDrawer ==
    /\ isOpen
    /\ isOpen' = FALSE
    /\ bodyOverflow' = DrawerEffect(FALSE)
    /\ UNCHANGED <<isFullscreen, fsPrev, chatVars>>
    /\ UNCHANGED <<dataVars, tipVars, navVars, pngVars>>
    /\ UNCHANGED extVars

(* the Escape key: every keydown listener registered on the document runs.
   With both the overlay and the drawer open both close, and the two cleanups
   write body overflow one after the other in either order. *)
Escape ==
    /\ isFullscreen \/ isOpen
    /\ isFullscreen' = FALSE
    /\ isOpen' = FALSE
    /\ bodyOverflow' \in
         IF isFullscreen /\ isOpen THEN {fsPrev, DrawerEffect(FALSE)}
         ELSE IF isFullscreen THEN {fsPrev}
         ELSE {DrawerEffect(FALSE)}
    /\ UNCHANGED <<fsPrev, chatVars>>
    /\ UNCHANGED <<dataVars, tipVars, navVars, pngVars>>
    /\ UNCHANGED extVars

(* the questions asked and the answer generateMockAnswer gives to each, as
   sequences of characters *)
Questions == {<<"q1">>, <<"q2">>}
AnswerOf(q) == IF q = <<"q1">> THEN <<"a", "b">> ELSE <<"c", "d">>

(* the ids crypto.randomUUID gives to the two messages of the n-th call *)
UserId(n) == 2 * n - 1
AssistantId(n) == 2 * n

(* the onChunk callback of every call appends to the last message *)
OnChunkLast(msgs, assistantId, chunk) ==
    [i \in 1..Len(msgs) |->
        IF i = Len(msgs)
        THEN [msgs[i] EXCEPT !.content = Append(@, chunk)]
        ELSE msgs[i]]

(* the onChunk callback sendMessage hands to sendChatMessage *)
OnChunk(msgs, assistantId, chunk) ==
    [i \in 1..Len(msgs) |->
        IF msgs[i].id = assistantId
        THEN [msgs[i] EXCEPT !.content = Append(@, chunk)]
        ELSE msgs[i]]

(* the final set of sendMessage: suggestions attached to its own message *)
AttachSuggestions(msgs, assistantId) ==
    [i \in 1..Len(msgs) |->
        IF msgs[i].id = assistantId
        THEN [msgs[i] EXCEPT !.suggestions = TRUE]
        ELSE msgs[i]]

(* the controls that can send a question: the input (disabled while loading),
   the follow-up chips (hidden while loading), the suggested questions (shown
   while the list is empty) *)
CanSend == ~isLoading \/ messages = <<>>

(* useChatStore.sendMessage up to its first await: both messages appended,
   isLoading set, and streamText has delivered the first character *)
SendMessage(q) ==
    /\ isOpen
    /\ CanSend
    /\ nextQuery <= MaxQueries
    /\ messages' = OnChunk(
          messages \o
            << [id |-> UserId(nextQuery), role |-> "user", content |-> q,
                suggestions |-> FALSE],
               [id |-> AssistantId(nextQuery), role |-> "assistant",
                content |-> <<>>, suggestions |-> FALSE] >>,
          AssistantId(nextQuery), AnswerOf(q)[1])
    /\ isLoading' = TRUE
    /\ streams' = streams \cup {[id |-> AssistantId(nextQuery), q |-> q, pos |-> 1]}
    /\ nextQuery' = nextQuery + 1
    /\ UNCHANGED shellVars
    /\ UNCHANGED <<dataVars, tipVars, navVars, pngVars>>
    /\ chatError' = NoError
    /\ UNCHANGED <<reloadVars, restVars>>

(* the exception messages the responder can throw with *)
Thrown == {"Network error"}

(* the fixed text the catch block puts in the placeholder *)
Apology == <<"Sorry">>

(* variant: the catch block replaces the content of every assistant message *)
OnErrorAll(msgs, assistantId) ==
    [i \in 1..Len(msgs) |->
        IF msgs[i].role = "assistant"
        THEN [msgs[i] EXCEPT !.content = Apology]
        ELSE msgs[i]]

(* the set of the catch block of sendMessage *)
OnError(msgs, assistantId) ==
    [i \in 1..Len(msgs) |->
        IF msgs[i].id = assistantId
        THEN [msgs[i] EXCEPT !.content = Apology]
        ELSE msgs[i]]

(* the two messages sendMessage appends before it calls the responder *)
Appended(msgs, n, q) ==
    msgs \o << [id |-> UserId(n), role |-> "user", content |-> q,
                suggestions |-> FALSE],
               [id |-> AssistantId(n), role |-> "assistant",
                content |-> <<>>, suggestions |-> FALSE] >>

(* sendMessage whose responder throws before its first chunk: the rejection
   is caught in the same task *)
SendThrows(q, msg) ==
    /\ isOpen
    /\ CanSend
    /\ nextQuery <= MaxQueries
    /\ messages' = OnError(Appended(messages, nextQuery, q), AssistantId(nextQuery))
    /\ isLoading' = FALSE
    /\ chatError' = msg
    /\ nextQuery' = nextQuery + 1
    /\ UNCHANGED <<streams, shellVars>>
    /\ UNCHANGED <<dataVars, tipVars, navVars, pngVars, reloadVars, restVars>>

(* the responder of a pending call throws between two chunks *)
StreamThrows(s, msg) ==
    /\ messages' = OnError(messages, s.id)
    /\ isLoading' = FALSE
    /\ chatError' = msg
    /\ streams' = streams \ {s}
    /\ UNCHANGED <<nextQuery, shellVars>>
    /\ UNCHANGED <<dataVars, tipVars, navVars, pngVars, reloadVars, restVars>>

(* streamText: a timer of a pending call fires and the next character is
   delivered *)
StreamChunk(s) ==
    /\ s.pos < Len(AnswerOf(s.q))
    /\ messages' = OnChunk(messages, s.id, AnswerOf(s.q)[s.pos + 1])
    /\ streams' = (streams \ {s}) \cup {[s EXCEPT !.pos = s.pos + 1]}
    /\ UNCHANGED <<isLoading, nextQuery, shellVars>>
    /\ UNCHANGED <<dataVars, tipVars, navVars, pngVars>>
    /\ UNCHANGED extVars

(* sendMessage after its await: the answer is complete *)
StreamDone(s) ==
    /\ s.pos = Len(AnswerOf(s.q))
    /\ messages' = AttachSuggestions(messages, s.id)
    /\ isLoading' = FALSE
    /\ streams' = streams \ {s}
    /\ UNCHANGED <<nextQuery, shellVars>>
    /\ UNCHANGED <<dataVars, tipVars, navVars, pngVars>>
    /\ UNCHANGED extVars

(* useChatStore.clearChat, from the button shown while the list is not empty *)
clearChat ==
    /\ isOpen
    /\ Len(messages) > 0
    /\ messages' = <<>>
    /\ UNCHANGED <<isLoading, streams, nextQuery, shellVars>>
    /\ UNCHANGED <<dataVars, tipVars, navVars, pngVars>>
    /\ chatError' = NoError
    /\ UNCHANGED <<reloadVars, restVars>>

NextApp ==
    \/ OpenFullscreen
    \/ CloseFullscreen
    \/ ToggleDrawer
    \/ CloseDrawer
    \/ Escape
    \/ \E q \in Questions : SendMessage(q)
    \/ \E s \in streams : StreamChunk(s)
    \/ \E s \in streams : StreamDone(s)
    \/ clearChat
    \/ \E q \in Questions, msg \in Thrown : SendThrows(q, msg)
    \/ \E s \in streams, msg \in Thrown : StreamThrows(s, msg)

(* a page mounted, the charts not yet measured, nothing open *)
InitApp ==
    /\ route = "/"
    /\ usAggregated = <<>>
    /\ btsUsState = <<>>
    /\ InitPage /\ InitCharts /\ InitCsv /\ InitFa /\ InitIdle

SpecApp == InitApp /\ [][NextApp]_vars

----------------------------------------------------------------------------
(* The tooltip elements of the mounted charts *)

Mounted(c) == tipOf[c] # NoTip \/ cleanupOf[c] # NoTip.id

(* one run of the drawing effect of chart c, after the cleanup of its previous
   run: with no data or no width it returns before touching the tooltip and
   registers no cleanup, and the handlers of the previous draw stay *)
TipEffect(c, ok) ==
    LET r == draws + 1
        swept == TipCleanup(bodyTips, cleanupOf[c])
        tip == TipFound(swept, c[1], r)
    IN  /\ draws < MaxDraws
        /\ draws' = r
        /\ IF ok
           THEN /\ bodyTips' = swept \cup {tip}
                /\ tipOf' = [tipOf EXCEPT ![c] = tip]
                /\ cleanupOf' = [cleanupOf EXCEPT ![c] = TipId(c[1], r)]
           ELSE /\ bodyTips' = swept
                /\ tipOf' = tipOf
                /\ cleanupOf' = [cleanupOf EXCEPT ![c] = NoTip.id]

(* the chart mounts with data and a measured width: in the card, or in the
   fullscreen copy of a mounted card *)
MountChart(c) ==
    /\ ~Mounted(c)
    /\ c[2] = "fullscreen" => Mounted(<<c[1], "card">>)
    /\ TipEffect(c, TRUE)
    /\ UNCHANGED <<dataVars, shellVars, chatVars, navVars, pngVars>>
    /\ UNCHANGED extVars

(* data, width or height changed: the effect of a mounted chart runs again *)
RedrawChart(c, ok) ==
    /\ Mounted(c)
    /\ TipEffect(c, ok)
    /\ UNCHANGED <<dataVars, shellVars, chatVars, navVars, pngVars>>
    /\ UNCHANGED extVars

(* the fullscreen copy closes, or the card leaves the page with its copy *)
UnmountChart(c) ==
    /\ Mounted(c)
    /\ LET gone == IF c[2] = "card" THEN {c, <<c[1], "fullscreen">>} ELSE {c}
       IN  /\ bodyTips' = {e \in bodyTips : \A d \in gone : e.id # cleanupOf[d]}
           /\ tipOf' = [d \in Charts |-> IF d \in gone THEN NoTip ELSE tipOf[d]]
           /\ cleanupOf' = [d \in Charts |-> IF d \in gone THEN NoTip.id
                                              ELSE cleanupOf[d]]
    /\ UNCHANGED <<draws, dataVars, shellVars, chatVars, navVars, pngVars>>
    /\ UNCHANGED extVars

NextTips ==
    \/ \E c \in Charts : MountChart(c)
    \/ \E c \in Charts, ok \in BOOLEAN : RedrawChart(c, ok)
    \/ \E c \in Charts : UnmountChart(c)

SpecTips == InitApp /\ [][NextTips]_vars

----------------------------------------------------------------------------
(* Loading, routing and the error boundary *)

(* the application has mounted and loadData is awaiting its four fetches *)
InitLoad ==
    /\ route = "/"
    /\ usAggregated = <<>>
    /\ btsUsState = <<>>
    /\ InitPage /\ InitCharts /\ InitCsv /\ InitFa
    /\ InitShell /\ InitChat /\ InitTips /\ InitPng /\ InitExt
    /\ loading = TRUE
    /\ error = NoError
    /\ fetches = [f \in Files |-> "pending"]
    /\ hasError = FALSE
    /\ filters = EmptyFilters

(* a d3.csv promise resolves; when it is the last one and none was rejected,
   Promise.all resolves and loadData stores the datasets *)
FetchResolve(f) ==
    /\ fetches[f] = "pending"
    /\ fetches' = [fetches EXCEPT ![f] = "resolved"]
    /\ IF \A g \in Files \ {f} : fetches[g] = "resolved"
       THEN /\ usAggregated' = TruckRows(2020, 2021)
            /\ btsUsState' = TxRows(2020, 2021)
            /\ txBorderPorts' = RailRows(2020, 2021)
            /\ masterData' = TruckRows(2020, 2021) \o RailRows(2020, 2021)
            /\ loading' = FALSE
       ELSE UNCHANGED <<usAggregated, btsUsState, txBorderPorts, masterData, loading>>
    /\ UNCHANGED <<error, route, hasError, filters, calls>>
    /\ UNCHANGED <<selectedMode, yearFilter, tradeTypeFilter, modeFilter>>
    /\ UNCHANGED <<chartVars, csvVars, faVars, shellVars, chatVars, tipVars, pngVars, tooltip>>
    /\ UNCHANGED <<chatError, restVars>>

(* a d3.csv promise rejects; the first rejection rejects Promise.all and the
   catch block of loadData runs, later ones are dropped *)
FetchReject(f, msg) ==
    /\ fetches[f] = "pending"
    /\ fetches' = [fetches EXCEPT ![f] = "rejected"]
    /\ IF \A g \in Files : fetches[g] # "rejected"
       THEN /\ error' = msg
            /\ loading' = FALSE
       ELSE UNCHANGED <<error, loading>>
    /\ UNCHANGED <<usAggregated, btsUsState, route, hasError, filters>>
    /\ UNCHANGED <<selectedMode, yearFilter, tradeTypeFilter, modeFilter>>
    /\ UNCHANGED <<chartVars, csvVars, faVars, shellVars, chatVars, tipVars, pngVars, tooltip>>
    /\ UNCHANGED extVars

(* a link of the header: the router renders the page of another route inside
   the same ErrorBoundary instance *)
Navigate(r) ==
    /\ r # route
    /\ route' = r
    /\ UNCHANGED <<usAggregated, btsUsState, loadVars, hasError, filters>>
    /\ UNCHANGED <<selectedMode, yearFilter, tradeTypeFilter, modeFilter>>
    /\ UNCHANGED <<chartVars, csvVars, faVars, shellVars, chatVars, tipVars, pngVars, tooltip>>
    /\ UNCHANGED extVars

(* the rendered page throws: getDerivedStateFromError *)
RenderThrows ==
    /\ ~hasError
    /\ hasError' = TRUE
    /\ UNCHANGED <<pageVars, loadVars, filters>>
    /\ UNCHANGED <<chartVars, csvVars, faVars, shellVars, chatVars, tipVars, pngVars, tooltip>>
    /\ UNCHANGED extVars

(* the 'Try again' button of the fallback *)
TryAgain ==
    /\ hasError
    /\ hasError' = FALSE
    /\ UNCHANGED <<pageVars, loadVars, filters>>
    /\ UNCHANGED <<chartVars, csvVars, faVars, shellVars, chatVars, tipVars, pngVars, tooltip>>
    /\ UNCHANGED extVars

NextLoad ==
    \/ \E f \in Files : FetchResolve(f)
    \/ \E f \in Files, msg \in Messages : FetchReject(f, msg)
    \/ \E r \in Routes : Navigate(r)
    \/ RenderThrows
    \/ TryAgain

SpecLoad == InitLoad /\ [][NextLoad]_vars

----------------------------------------------------------------------------
(* Overlapping loadData calls *)

(* what d3.csv yields for a file in the n-th call, after normalization: the
   files may have changed between two calls *)
ParsedCsv(f, n) ==
    CASE f = "us_aggregated" -> TruckRows(2020, 2019 + n)
      [] f = "tx_border_ports" -> RailRows(2020, 2019 + n)
      [] f = "bts_us_state" -> TxRows(2020, 2019 + n)
      [] OTHER -> TruckRows(2020, 2019 + n) \o RailRows(2020, 2019 + n)

(* the four datasets of the store *)
Datasets ==
    [usAggregated |-> usAggregated, txBorderPorts |-> txBorderPorts,
     btsUsState |-> btsUsState, masterData |-> masterData]

(* variant: the set of a successful call leaves masterData as it was *)
setLoadedKeepMaster(prev, n) ==
    [usAggregated |-> ParsedCsv("us_aggregated", n),
     txBorderPorts |-> ParsedCsv("tx_border_ports", n),
     btsUsState |-> ParsedCsv("bts_us_state", n),
     masterData |-> prev.masterData]

(* the single set of a successful call: all four datasets at once *)
setLoaded(prev, n) ==
    [usAggregated |-> ParsedCsv("us_aggregated", n),
     txBorderPorts |-> ParsedCsv("tx_border_ports", n),
     btsUsState |-> ParsedCsv("bts_us_state", n),
     masterData |-> ParsedCsv("master_data", n)]

(* a loadData call up to its await: Promise.all awaits the four fetches *)
NewCall == [awaits |-> Files, state |-> "pending"]

(* the application has mounted: the effect of AppContent has called loadData *)
InitReload ==
    /\ route = "/"
    /\ usAggregated = <<>>
    /\ btsUsState = <<>>
    /\ txBorderPorts = <<>>
    /\ masterData = <<>>
    /\ InitPage /\ InitCharts /\ InitCsv /\ InitFa
    /\ InitShell /\ InitChat /\ InitTips /\ InitPng
    /\ loading = TRUE
    /\ error = NoError
    /\ fetches = [f \in Files |-> "resolved"]
    /\ hasError = FALSE
    /\ filters = EmptyFilters
    /\ calls = <<NewCall>>
    /\ chatError = NoError
    /\ InitRest

(* useTradeStore.loadData called again while earlier calls may be in flight *)
LoadData ==
    /\ Len(calls) < MaxCalls
    /\ calls' = Append(calls, NewCall)
    /\ loading' = TRUE
    /\ error' = NoError
    /\ UNCHANGED <<pageVars, txBorderPorts, masterData, fetches, hasError, filters>>
    /\ UNCHANGED <<chartVars, csvVars, faVars, shellVars, chatVars, tipVars, pngVars, tooltip>>
    /\ UNCHANGED <<chatError, restVars>>

(* a fetch of the n-th call resolves; with the last one Promise.all resolves
   and the call stores its datasets *)
CallResolve(n, f) ==
    /\ calls[n].state = "pending"
    /\ f \in calls[n].awaits
    /\ IF calls[n].awaits = {f}
       THEN /\ calls' = [calls EXCEPT ![n] = [awaits |-> {}, state |-> "fulfilled"]]
            /\ usAggregated' = setLoaded(Datasets, n).usAggregated
            /\ txBorderPorts' = setLoaded(Datasets, n).txBorderPorts
            /\ btsUsState' = setLoaded(Datasets, n).btsUsState
            /\ masterData' = setLoaded(Datasets, n).masterData
            /\ loading' = FALSE
       ELSE /\ calls' = [calls EXCEPT ![n].awaits = @ \ {f}]
            /\ UNCHANGED <<usAggregated, txBorderPorts, btsUsState, masterData, loading>>
    /\ UNCHANGED <<route, selectedMode, yearFilter, tradeTypeFilter, modeFilter>>
    /\ UNCHANGED <<error, fetches, hasError, filters>>
    /\ UNCHANGED <<chartVars, csvVars, faVars, shellVars, chatVars, tipVars, pngVars, tooltip>>
    /\ UNCHANGED <<chatError, restVars>>

(* a fetch of the n-th call rejects: Promise.all rejects at once, the catch
   block runs and the call's other fetches are no longer awaited *)
CallReject(n, f, msg) ==
    /\ calls[n].state = "pending"
    /\ f \in calls[n].awaits
    /\ calls' = [calls EXCEPT ![n] = [awaits |-> {}, state |-> "rejected"]]
    /\ error' = msg
    /\ loading' = FALSE
    /\ UNCHANGED <<pageVars, txBorderPorts, masterData, fetches, hasError, filters>>
    /\ UNCHANGED <<chartVars, csvVars, faVars, shellVars, chatVars, tipVars, pngVars, tooltip>>
    /\ UNCHANGED <<chatError, restVars>>

NextReload ==
    \/ LoadData
    \/ \E n \in 1..Len(calls), f \in Files : CallResolve(n, f)
    \/ \E n \in 1..Len(calls), f \in Files, msg \in Messages : CallReject(n, f, msg)

SpecReload == InitReload /\ [][NextReload]_vars

----------------------------------------------------------------------------
(* PNG export of a card *)

(* the chart of the card is laid out again, hidden, or not rendered at all *)
MeasureSvg(size) ==
    /\ size # svg
    /\ svg' = size
    /\ UNCHANGED <<pending, downloads, warnings, exports>>
    /\ UNCHANGED <<dataVars, shellVars, chatVars, tipVars, navVars>>
    /\ UNCHANGED extVars

(* exportChartPng up to img.src = url: nothing without an SVG, a warning for a
   zero dimension, else the prepared clone, a canvas sized from the measured
   SVG and the header, and an image left loading *)
exportChartPng(title, subtitle) ==
    /\ exports < MaxExports
    /\ exports' = exports + 1
    /\ IF svg = NoSvg
       THEN UNCHANGED <<pending, warnings, cloneTree>>
       ELSE IF ZeroDims(svg.w, svg.h)
       THEN /\ warnings' = Append(warnings, ZeroWarning)
            /\ UNCHANGED <<pending, cloneTree>>
       ELSE /\ pending' = pending \cup
                  {[n |-> exports + 1, w |-> svg.w, h |-> svg.h,
                    title |-> title, subtitle |-> subtitle,
                    width |-> canvasWidth(svg.w),
                    height |-> canvasHeight(svg.h, title, subtitle)]}
            /\ cloneTree' = preparedClone(svgTree)
            /\ UNCHANGED warnings
    /\ UNCHANGED <<svg, downloads>>
    /\ UNCHANGED <<dataVars, shellVars, chatVars, tipVars, navVars>>
    /\ UNCHANGED <<reloadVars, chatError, tableVars, multiVars, svgTree>>

(* img.onload: the chart is drawn on the canvas and the download triggered *)
ImgLoad(p) ==
    /\ downloads' = Append(downloads, p)
    /\ pending' = pending \ {p}
    /\ UNCHANGED <<svg, warnings, exports>>
    /\ UNCHANGED <<dataVars, shellVars, chatVars, tipVars, navVars>>
    /\ UNCHANGED extVars

(* img.onerror *)
ImgError(p) ==
    /\ warnings' = Append(warnings, LoadWarning)
    /\ pending' = pending \ {p}
    /\ UNCHANGED <<svg, downloads, exports>>
    /\ UNCHANGED <<dataVars, shellVars, chatVars, tipVars, navVars>>
    /\ UNCHANGED extVars

NextPng ==
    \/ \E size \in SvgSizes \cup {NoSvg} : MeasureSvg(size)
    \/ \E title \in Titles, subtitle \in Subtitles : exportChartPng(title, subtitle)
    \/ \E p \in pending : ImgLoad(p)
    \/ \E p \in pending : ImgError(p)

SpecPng == InitApp /\ [][NextPng]_vars

(* a card whose chart is rendered with an arbitrary element tree *)
InitClone ==
    /\ route = "/"
    /\ usAggregated = <<>>
    /\ btsUsState = <<>>
    /\ InitPage /\ InitCharts /\ InitCsv /\ InitFa
    /\ InitShell /\ InitChat /\ InitTips /\ InitNav
    /\ InitReloadIdle /\ chatError = NoError /\ InitTableIdle /\ InitMultiIdle
    /\ svg \in SvgSizes
    /\ pending = {}
    /\ downloads = <<>>
    /\ warnings = <<>>
    /\ exports = 0
    /\ \E shape \in TreeShapes(MaxChildren, MaxGrandchildren) : svgTree = SvgOf(shape)
    /\ cloneTree = EmptySvg

NextClone ==
    \E title \in Titles, subtitle \in Subtitles : exportChartPng(title, subtitle)

SpecClone == InitClone /\ [][NextClone]_vars

----------------------------------------------------------------------------
(* Hovering the line chart of the TradeByState page *)

(* mousemove over the overlay of the chart drawn from the current data *)
Hover(mx) ==
    /\ route = "/trade-by-state"
    /\ chart.drawn
    /\ width # 0
    /\ Len(lineData) > 0
    /\ mx \in 0..chart.innerW
    /\ tooltip' = TipAt(tooltip, chart, lineData, mx)
    /\ UNCHANGED <<pageVars, chartVars, csvVars, faVars, appVars>>
    /\ UNCHANGED extVars

(* mouseleave of the overlay *)
MouseLeave ==
    /\ tooltip.mx # NoPointer
    /\ tooltip' = [HideTip(tooltip) EXCEPT !.mx = NoPointer]
    /\ UNCHANGED <<pageVars, chartVars, csvVars, faVars, appVars>>
    /\ UNCHANGED extVars

NextHover ==
    \/ \E t \in {"", "Export", "Import"} : SetTradeType(t)
    \/ \E w \in Widths : Resize(w)
    \/ \E kn \in ZoomSteps..(ZoomSteps * chart.maxZoom),
          tx \in (0 - chart.innerW * chart.maxZoom)..0 : ZoomEvent(kn, tx)
    \/ \E mx \in 0..chart.innerW : Hover(mx)
    \/ MouseLeave

SpecHover == InitState /\ [][NextHover]_vars

----------------------------------------------------------------------------
(* DataTable: sorting and pagination of one table instance *)

DEFAULT_PAGE_SIZE == 10
HEADER_HEIGHT == 45
ROW_HEIGHT == 41
FOOTER_HEIGHT == 49

(* the columns of the table, and sortKey null *)
Columns == {"State", "TotalTrade"}
NoKey == "null"

(* a null number cell *)
NoNumber == 0 - 1

(* the rows handed to the table: texts in both cases, numbers, null cells in
   either column *)
TableRowSet ==
    { [State |-> "TX", TotalTrade |-> 3],
      [State |-> "ca", TotalTrade |-> NoNumber],
      [State |-> NullText, TotalTrade |-> 1] }

TableInputs == SeqsUpTo(TableRowSet, MaxTableRows)

(* clientHeight of the table root: hidden, too low for one row, one row, two rows *)
TableHeights == {0, 100, 135, 176}

(* av == null *)
IsNullCell(row, key) ==
    IF key = "State" THEN row.State = NullText ELSE row.TotalTrade = NoNumber

(* the position of a text in the order of String.prototype.localeCompare:
   lower case before upper case of the same letters *)
LocaleRank(s) == CASE s = "ca" -> 1 [] s = "CA" -> 2 [] s = "TX" -> 3 [] OTHER -> 0

localeCompare(s, t) == LocaleRank(s) - LocaleRank(t)

(* variant: the comparator ignores the direction *)
compareAscending(a, b, key, dir) ==
    IF IsNullCell(a, key) THEN 1
    ELSE IF IsNullCell(b, key) THEN 0 - 1
    ELSE IF key = "TotalTrade" THEN a.TotalTrade - b.TotalTrade
    ELSE localeCompare(a.State, b.State)

(* the comparator handed to Array.prototype.sort *)
compare(a, b, key, dir) ==
    IF IsNullCell(a, key) THEN 1
    ELSE IF IsNullCell(b, key) THEN 0 - 1
    ELSE IF key = "TotalTrade"
         THEN IF dir = "asc" THEN a.TotalTrade - b.TotalTrade
              ELSE b.TotalTrade - a.TotalTrade
    ELSE IF dir = "asc" THEN localeCompare(a.State, b.State)
         ELSE localeCompare(b.State, a.State)

(* Array.prototype.sort: stable insertion, the inserted row compared first *)
RECURSIVE InsertBy(_, _, _, _)
InsertBy(s, e, key, dir) ==
    IF s = <<>> THEN <<e>>
    ELSE IF compare(e, Head(s), key, dir) < 0 THEN <<e>> \o s
    ELSE <<Head(s)>> \o InsertBy(Tail(s), e, key, dir)

RECURSIVE SortBy(_, _, _)
SortBy(s, key, dir) ==
    IF s = <<>> THEN <<>>
    ELSE InsertBy(SortBy(SubSeq(s, 1, Len(s) - 1), key, dir), s[Len(s)], key, dir)

(* the sorted memo *)
sortedOf(data, key, dir) == IF key = NoKey THEN data ELSE SortBy(data, key, dir)

totalPagesOf(data, size) == CeilDiv(Len(data), size)

(* the rows of the current page *)
pagedOf(data, key, dir, p, size) ==
    LET rows == sortedOf(data, key, dir)
        lo == p * size + 1
        hi == IF (p + 1) * size < Len(rows) THEN (p + 1) * size ELSE Len(rows)
    IN  IF lo > hi THEN <<>> ELSE SubSeq(rows, lo, hi)

(* recalcPageSize: the default outside the fullscreen overlay, inside it as
   many rows as fit, at least one; a hidden root keeps the size *)
recalcPageSize(size, fs, available) ==
    IF ~fs THEN DEFAULT_PAGE_SIZE
    ELSE IF available <= 0 THEN size
    ELSE LET rows == FloorDiv(available - HEADER_HEIGHT - FOOTER_HEIGHT, ROW_HEIGHT)
         IN  IF rows < 1 THEN 1 ELSE rows

(* variant: the layout effect leaves the page where it was *)
pageKept(p, changed) == p

(* the layout effect on [pageSize, data]: back to the first page *)
pageAfterEffect(p, changed) == IF changed THEN 0 ELSE p

(* the pagination bar is rendered and its buttons are enabled *)
NextEnabled(data, p, size) ==
    totalPagesOf(data, size) > 1 /\ p < totalPagesOf(data, size) - 1
PrevEnabled(data, p, size) ==
    totalPagesOf(data, size) > 1 /\ p # 0

(* the table has mounted in a card or in the fullscreen overlay and its first
   layout effects have run *)
InitTable ==
    /\ tblData \in TableInputs
    /\ sortKey = NoKey
    /\ sortDir = "asc"
    /\ page = 0
    /\ tblFs \in BOOLEAN
    /\ tblHeight \in (IF tblFs THEN TableHeights \ {0} ELSE {0})
    /\ pageSize = recalcPageSize(DEFAULT_PAGE_SIZE, tblFs, tblHeight)

InitTableSpec ==
    /\ route = "/trade-by-state"
    /\ usAggregated = <<>>
    /\ btsUsState = <<>>
    /\ InitPage /\ InitCharts /\ InitCsv /\ InitFa
    /\ InitShell /\ InitChat /\ InitTips /\ InitNav /\ InitPng
    /\ InitReloadIdle /\ chatError = NoError /\ InitMultiIdle /\ InitCloneIdle
    /\ InitTable

(* click on a column header *)
handleSort(key) ==
    /\ sortKey' = key
    /\ sortDir' = IF sortKey = key THEN (IF sortDir = "asc" THEN "desc" ELSE "asc")
                  ELSE "asc"
    /\ page' = 0
    /\ UNCHANGED <<tblData, pageSize, tblFs, tblHeight>>
    /\ UNCHANGED <<dataVars, appVars, reloadVars, chatError, multiVars, cloneVars>>

(* the Next button *)
NextPage ==
    /\ NextEnabled(tblData, page, pageSize)
    /\ page' = IF totalPagesOf(tblData, pageSize) - 1 < page + 1
               THEN totalPagesOf(tblData, pageSize) - 1 ELSE page + 1
    /\ UNCHANGED <<tblData, sortKey, sortDir, pageSize, tblFs, tblHeight>>
    /\ UNCHANGED <<dataVars, appVars, reloadVars, chatError, multiVars, cloneVars>>

(* the Prev button *)
PrevPage ==
    /\ PrevEnabled(tblData, page, pageSize)
    /\ page' = IF page - 1 < 0 THEN 0 ELSE page - 1
    /\ UNCHANGED <<tblData, sortKey, sortDir, pageSize, tblFs, tblHeight>>
    /\ UNCHANGED <<dataVars, appVars, reloadVars, chatError, multiVars, cloneVars>>

(* the parent passes another data array: the layout effect runs before paint *)
SetData(d) ==
    /\ d # tblData
    /\ tblData' = d
    /\ page' = pageAfterEffect(page, TRUE)
    /\ UNCHANGED <<sortKey, sortDir, pageSize, tblFs, tblHeight>>
    /\ UNCHANGED <<dataVars, appVars, reloadVars, chatError, multiVars, cloneVars>>

(* ResizeObserver callback: recalcPageSize, then the layout effect *)
ResizeTable(h) ==
    /\ tblFs
    /\ h # tblHeight
    /\ tblHeight' = h
    /\ pageSize' = recalcPageSize(pageSize, tblFs, h)
    /\ page' = pageAfterEffect(page, recalcPageSize(pageSize, tblFs, h) # pageSize)
    /\ UNCHANGED <<tblData, sortKey, sortDir, tblFs>>
    /\ UNCHANGED <<dataVars, appVars, reloadVars, chatError, multiVars, cloneVars>>

NextTable ==
    \/ \E key \in Columns : handleSort(key)
    \/ NextPage
    \/ PrevPage
    \/ \E d \in TableInputs : SetData(d)
    \/ \E h \in TableHeights : ResizeTable(h)

SpecTable == InitTableSpec /\ [][NextTable]_vars

----------------------------------------------------------------------------
(* FilterMultiSelect: the selected array of one multi-select filter *)

(* the option values of the filter: the first n of a fixed list of distinct
   values *)
OptionsUpTo(n) == [i \in 1..n |-> i]

Includes(arr, val) == \E i \in 1..Len(arr) : arr[i] = val

(* value.filter((v) => v !== val) *)
RECURSIVE Without(_, _)
Without(arr, val) ==
    IF arr = <<>> THEN <<>>
    ELSE IF Head(arr) = val THEN Without(Tail(arr), val)
    ELSE <<Head(arr)>> \o Without(Tail(arr), val)

(* variant: the array is never collapsed to "All" *)
toggleArrKeepAll(value, val, optionValues) ==
    IF Includes(value, val) THEN Without(value, val) ELSE Append(value, val)

(* FilterMultiSelect.toggle: the array handed to onChange *)
toggleArr(value, val, optionValues) ==
    IF Includes(value, val) THEN Without(value, val)
    ELSE IF Len(Append(value, val)) = Len(optionValues) THEN <<>>
    ELSE Append(value, val)

(* the test of one multi-select filter in the page's filtered memo *)
passesMulti(sel, cell) == ~(Len(sel) > 0 /\ ~Includes(sel, cell))

(* a page with one multi-select filter has mounted: nothing selected, the
   dropdown closed *)
InitMulti ==
    /\ route = "/trade-by-state"
    /\ usAggregated = <<>>
    /\ btsUsState = <<>>
    /\ InitPage /\ InitCharts /\ InitCsv /\ InitFa
    /\ InitShell /\ InitChat /\ InitTips /\ InitNav /\ InitPng
    /\ InitReloadIdle /\ chatError = NoError /\ InitTableIdle /\ InitCloneIdle
    /\ \E n \in 1..MaxOptions : msOptions = OptionsUpTo(n)
    /\ msValue = <<>>
    /\ msOpen = FALSE

(* the button of the filter opens and closes the dropdown *)
ToggleOpen ==
    /\ msOpen' = ~msOpen
    /\ UNCHANGED <<msValue, msOptions>>
    /\ UNCHANGED <<dataVars, appVars, reloadVars, chatError, tableVars, cloneVars>>

(* mousedown outside the filter *)
OutsideClick ==
    /\ msOpen
    /\ msOpen' = FALSE
    /\ UNCHANGED <<msValue, msOptions>>
    /\ UNCHANGED <<dataVars, appVars, reloadVars, chatError, tableVars, cloneVars>>

(* click on an option of the open dropdown *)
ToggleOption(val) ==
    /\ msOpen
    /\ Includes(msOptions, val)
    /\ msValue' = toggleArr(msValue, val, msOptions)
    /\ UNCHANGED <<msOptions, msOpen>>
    /\ UNCHANGED <<dataVars, appVars, reloadVars, chatError, tableVars, cloneVars>>

(* click on the "All" entry of the open dropdown *)
selectAll ==
    /\ msOpen
    /\ msValue' = <<>>
    /\ UNCHANGED <<msOptions, msOpen>>
    /\ UNCHANGED <<dataVars, appVars, reloadVars, chatError, tableVars, cloneVars>>

(* the remove button of an active-filter tag of the page *)
RemoveTag(val) ==
    /\ Includes(msValue, val)
    /\ msValue' = Without(msValue, val)
    /\ UNCHANGED <<msOptions, msOpen>>
    /\ UNCHANGED <<dataVars, appVars, reloadVars, chatError, tableVars, cloneVars>>

NextMulti ==
    \/ ToggleOpen
    \/ OutsideClick
    \/ \E val \in 1..MaxOptions : ToggleOption(val)
    \/ selectAll
    \/ \E val \in 1..MaxOptions : RemoveTag(val)

SpecMulti == InitMulti /\ [][NextMulti]_vars

TypeOK ==
    /\ width \in Widths
    /\ barSvg \in BOOLEAN
    /\ chart.drawn \in BOOLEAN

----------------------------------------------------------------------------
(* Properties of the zoom / export interplay (specification Spec) *)

(* a step taken by the zoom handler: the transform changes, the page and the
   measured width do not *)
ZoomStep == chart' # chart /\ UNCHANGED <<pageVars, width>>

(* C1: while the card holds a visible range {xKey, min, max}, the summary and the
   detail array handed to the CSV export have no more rows than the unzoomed
   arrays, and the axis value of every exported row lies in [min, max]. *)
C1_ZoomedExportWithinRange ==
    zoomRange # Null =>
        /\ Len(summaryExport) <= Len(summaryData)
        /\ Len(detailExport) <= Len(detailData)
        /\ \A i \in DOMAIN summaryExport :
              summaryExport[i].year \in zoomRange.min..zoomRange.max
        /\ \A i \in DOMAIN detailExport :
              detailExport[i].Year \in zoomRange.min..zoomRange.max

(* zoomed in, and the range drops some rows and keeps others in both arrays *)
C1_Witness ==
    /\ chart.kn > ZoomSteps
    /\ zoomRange # Null
    /\ Len(summaryExport) > 0 /\ Len(summaryExport) < Len(summaryData)
    /\ Len(detailExport) > 0 /\ Len(detailExport) < Len(detailData)

(* C2: a zoom event that brings the transform back to scale 1 leaves the card
   exporting as many summary and detail rows as the unzoomed arrays hold. *)
C2_ResetRestoresBaseline ==
    [][(ZoomStep /\ chart'.kn = ZoomSteps) =>
          /\ Len(effectiveData(summaryData, zoomRange')) = Len(summaryData)
          /\ Len(effectiveData(detailData, zoomRange')) = Len(detailData)]_vars

(* zoom was reset after a zoomed export that had dropped rows, on data that has
   a row without a year *)
C2_Witness ==
    /\ chart.drawn /\ chart.zoomOn /\ chart.handled
    /\ chart.kn = ZoomSteps /\ zoomRange = Null
    /\ \E i \in DOMAIN detailData : detailData[i].Year = NullYear
    /\ Len(summaryExport) = Len(summaryData)
    /\ Len(summaryData) > 3

(* C3: every range a zoom event stores has min <= max, and both ends lie within
   the x-domain of the data the chart was drawn from. *)
C3_StoredRangeWithinDomain ==
    [][(ZoomStep /\ zoomRange' # Null) =>
          /\ zoomRange'.min <= zoomRange'.max
          /\ chart.xmin <= zoomRange'.min
          /\ zoomRange'.max <= chart.xmax]_vars

(* a stored range of a single year strictly inside the domain *)
C3_Witness ==
    /\ chart.kn > ZoomSteps /\ chart.tx < 0
    /\ zoomRange # Null
    /\ zoomRange.min = zoomRange.max
    /\ chart.xmin < zoomRange.min

(* C4: on every zoom event the card receives, for a scale above 1, the range
   whose min is the least integer not below the start of the visible x-domain
   and whose max is the greatest integer not above its end, under the chart's
   xKey; for scale 1 it receives null. *)
C4_ReportedRange ==
    [][ZoomStep =>
          IF chart'.kn > ZoomSteps
          THEN LET den == chart'.kn * chart.innerW
                   lo == chart.xmin * den
                           + (chart.xmax - chart.xmin) * (0 - chart'.tx) * ZoomSteps
                   hi == chart.xmin * den
                           + (chart.xmax - chart.xmin) * (chart.innerW - chart'.tx) * ZoomSteps
               IN  /\ zoomRange' # Null
                   /\ zoomRange'.xKey = "year"
                   /\ zoomRange'.min * den >= lo /\ (zoomRange'.min - 1) * den < lo
                   /\ zoomRange'.max * den <= hi /\ (zoomRange'.max + 1) * den > hi
          ELSE zoomRange' = Null]_vars

(* a reported range whose ends were both rounded inwards *)
C4_Witness ==
    /\ chart.kn > ZoomSteps
    /\ zoomRange = Reported(chart, chart.kn, chart.tx)
    /\ DomainStartNum(chart, chart.kn, chart.tx) % DomainDen(chart, chart.kn) # 0
    /\ DomainEndNum(chart, chart.kn, chart.tx) % DomainDen(chart, chart.kn) # 0

----------------------------------------------------------------------------
(* Aggregation (specification SpecAgg) *)

RECURSIVE SumValue(_)
SumValue(series) ==
    IF series = <<>> THEN 0 ELSE Head(series).value + SumValue(Tail(series))

RECURSIVE SumTradeValue(_)
SumTradeValue(rows) ==
    IF rows = <<>> THEN 0 ELSE Head(rows).TradeValue + SumTradeValue(Tail(rows))

(* the rows that pass the page's active filters *)
PageRows(ds) == IF route = "/" THEN homeSourceOf(ds, selectedMode) ELSE filtered

homeTopStates == homeTopStatesOf(btsUsState, selectedMode)

(* C5 as stated: the values of each aggregated series add up to the TradeValue
   of the rows that pass the page's active filters. *)
C5_SumOverFilteredRows ==
    IF route = "/"
    THEN /\ SumValue(trendLineData) = SumTradeValue(PageRows(usAggregated))
         /\ SumValue(modeData) = SumTradeValue(PageRows(usAggregated))
         /\ SumValue(homeTopStates) = SumTradeValue(PageRows(btsUsState))
    ELSE /\ SumValue(barData) = SumTradeValue(PageRows(btsUsState))
         /\ SumValue(stateTrends) = SumTradeValue(PageRows(btsUsState))

(* C5, amended: the values of each aggregated series add up to the TradeValue of
   the rows its aggregator admits: the trend series, the rows that pass the
   selected mode; the mode breakdown, every row that has a mode, whatever mode is
   selected; a top-state ranking, the rows that pass the page's filters and
   belong to a state kept in the ranking; the state trends, the rows of the five
   highest-ranked states that pass the trade-type and mode filters, whatever
   years are selected. *)
C5_SumOverAdmittedRows ==
    IF route = "/"
    THEN /\ SumValue(trendLineData) = SumTradeValue(PageRows(usAggregated))
         /\ SumValue(modeData) =
               SumTradeValue(SelectSeq(usAggregated, LAMBDA d : d.Mode # NullText))
         /\ SumValue(homeTopStates) =
               SumTradeValue(SelectSeq(PageRows(btsUsState),
                                       LAMBDA d : d.State \in Labels(homeTopStates)))
    ELSE /\ SumValue(barData) =
               SumTradeValue(SelectSeq(PageRows(btsUsState),
                                       LAMBDA d : d.State \in Labels(barData)))
         /\ SumValue(stateTrends) =
               SumTradeValue(SelectSeq(btsUsState, LAMBDA d :
                   /\ d.State \in Labels(Take(topStates, 5))
                   /\ (tradeTypeFilter = "" \/ d.TradeType = tradeTypeFilter)
                   /\ (modeFilter = {} \/ d.Mode \in modeFilter)))

(* a trade type is selected, six states are ranked and the sixth is left out of
   the trends *)
C5_Witness ==
    /\ route = "/trade-by-state"
    /\ tradeTypeFilter # ""
    /\ Len(topStates) > 5
    /\ SumValue(stateTrends) > 0
    /\ SumValue(stateTrends) < SumTradeValue(filtered)

----------------------------------------------------------------------------
(* TradeByState page (specification SpecState) *)

(* the dataset rows that satisfy every active filter *)
RowsPassingFilters ==
    SelectSeq(btsUsState, LAMBDA d :
        /\ (yearFilter = {} \/ d.Year \in yearFilter)
        /\ (tradeTypeFilter = "" \/ d.TradeType = tradeTypeFilter)
        /\ (modeFilter = {} \/ d.Mode \in modeFilter))

(* C6 as stated: the detail array handed to the CSV export is exactly the
   dataset rows that satisfy every active filter. *)
C6_DetailIsFilteredRows == detailExport = RowsPassingFilters

(* C6, amended: the detail array handed to the CSV export is exactly the dataset
   rows that satisfy every active filter and, while the card holds a visible
   range, whose Year lies in it; with a trade-type filter of "Export" on three
   rows of which two are exports, and no visible range, it holds two rows. *)
C6_DetailIsFilteredRowsInRange ==
    /\ detailExport =
          SelectSeq(RowsPassingFilters, LAMBDA d :
              zoomRange = Null \/ d.Year \in zoomRange.min..zoomRange.max)
    /\ (/\ Len(btsUsState) = 3
        /\ Len(SelectSeq(btsUsState, LAMBDA d : d.TradeType = "Export")) = 2
        /\ tradeTypeFilter = "Export" /\ yearFilter = {} /\ modeFilter = {}
        /\ zoomRange = Null)
          => Len(detailExport) = 2

(* years and a mode are selected, the trends chart is zoomed in, and the range
   drops some of the filtered rows *)
C6_Witness ==
    /\ yearFilter # {} /\ modeFilter # {}
    /\ chart.kn > ZoomSteps /\ zoomRange # Null
    /\ Len(detailExport) > 0
    /\ Len(detailExport) < Len(RowsPassingFilters)
    /\ Len(RowsPassingFilters) < Len(btsUsState)

----------------------------------------------------------------------------
(* CSV round trip (specification SpecCsv) *)

(* reader: splits on commas and line breaks outside quotes, undoubles quotes *)
RECURSIVE ParseFrom(_, _, _, _, _)
ParseFrom(t, inQuotes, field, rec, recs) ==
    IF t = <<>> THEN Append(recs, Append(rec, field))
    ELSE LET c == Head(t)
             r == Tail(t)
         IN  IF inQuotes
             THEN IF c = Quote
                  THEN IF r # <<>> /\ Head(r) = Quote
                       THEN ParseFrom(Tail(r), TRUE, Append(field, Quote), rec, recs)
                       ELSE ParseFrom(r, FALSE, field, rec, recs)
                  ELSE ParseFrom(r, TRUE, Append(field, c), rec, recs)
             ELSE IF c = Quote THEN ParseFrom(r, TRUE, field, rec, recs)
             ELSE IF c = Comma THEN ParseFrom(r, FALSE, <<>>, Append(rec, field), recs)
             ELSE IF c \in {LF, CR}
                  THEN ParseFrom(r, FALSE, <<>>, <<>>, Append(recs, Append(rec, field)))
             ELSE ParseFrom(r, FALSE, Append(field, c), rec, recs)

ParseCsv(t) == ParseFrom(t, FALSE, <<>>, <<>>, <<>>)

(* the text of a value: empty for null *)
TextOf(v) == IF v = NoValue THEN <<>> ELSE v

(* C7: for a non-empty array of rows that share the first row's keys, reading
   back the text produced by downloadCsv gives one record per row after the
   header, one field per key, and each field is the text of the row's value
   (the empty text for null), commas, double quotes and line breaks included. *)
C7_CsvRoundTrip ==
    csvDone =>
        LET parsed == ParseCsv(Tail(csvText))
            keys == KeysOf(csvRows[1])
        IN  /\ Len(parsed) = Len(csvRows) + 1
            /\ \A i \in DOMAIN csvRows :
                  /\ Len(parsed[i + 1]) = Len(keys)
                  /\ \A j \in DOMAIN keys :
                        /\ keys[j] \in DOMAIN csvRows[i]
                        /\ parsed[i + 1][j] = TextOf(csvRows[i][keys[j]])
                  /\ DOMAIN csvRows[i] = {keys[j] : j \in DOMAIN keys}

(* a serialized row whose values hold a double quote, a comma and a line break *)
C7_Witness ==
    /\ csvDone
    /\ DOMAIN csvRows[1] = {"k1", "k2"}
    /\ csvRows[1].k1 = <<Quote, Comma>>
    /\ csvRows[1].k2 = <<LF>>

----------------------------------------------------------------------------
(* Chart renderers when there is nothing to draw (specification SpecState) *)

(* C8: whenever a chart's data is empty or its measured width is zero, its SVG
   element has no children. *)
C8_NoChildrenWhenEmpty ==
    /\ (Len(lineData) = 0 \/ width = 0) => ~chart.drawn
    /\ (Len(barData) = 0 \/ width = 0) => ~barSvg

----------------------------------------------------------------------------
(* Zoom availability (specification Spec) *)

(* what zoom looks like while the chart is rendered from the current data *)
C9_Rendered(threshold) ==
    (width # 0 /\ Len(lineData) > 0) =>
        /\ chart.drawn
        /\ chart.zoomOn <=> uniqueXOf(lineData) >= threshold
        /\ chart.zoomOn =>
              /\ 3 * chart.maxZoom >= uniqueXOf(lineData)
              /\ 3 * (chart.maxZoom - 1) < uniqueXOf(lineData)

(* C9 as stated: zoom is enabled exactly when the data has at least 3 distinct
   x-values. *)
C9_AtLeastThree == C9_Rendered(3)

(* C9, amended: zoom is enabled exactly when the data has more than 3 distinct
   x-values; otherwise there is no zoom behaviour, no reset control and no range
   is reported; when enabled, the maximum zoom factor is the number of distinct
   x-values divided by 3, rounded up. *)
C9_ZoomEnabledAboveThree ==
    /\ [](C9_Rendered(4) /\ (~chart.zoomOn => ~chart.resetShown))
    /\ [][~chart.zoomOn => (chart'.kn = ZoomSteps /\ chart'.tx = 0
                              /\ zoomRange' = zoomRange)]_vars

(* a chart rendered from seven or more distinct x-values, zoomed beyond factor 2 *)
C9_Witness ==
    /\ width # 0 /\ chart.drawn /\ chart.zoomOn
    /\ uniqueXOf(lineData) >= 7
    /\ chart.maxZoom = 3
    /\ chart.kn > 2 * ZoomSteps

----------------------------------------------------------------------------
(* Range-scoped payload (specification SpecFilter) *)

RowsHave(arr, key) == \A i \in DOMAIN arr : key \in DOMAIN arr[i]

Within(arr, key, range) ==
    SelectSeq(arr, LAMBDA d : d[key] \in range.min..range.max)

(* C10: with a visible range present, a payload array is cut down to the rows
   whose axis field lies in [min, max] inclusive, read under the key xKey when
   the rows have it, otherwise under xKey with its first letter in upper case;
   the array is passed on unfiltered only when the rows have neither field. *)
C10_FilterByExactThenCapitalized ==
    (faDone /\ faRange # Null) =>
        LET exact == faRange.xKey
            cap == IF exact = "year" THEN "Year" ELSE "Value"
        IN  IF RowsHave(faArr, exact) THEN faOut = Within(faArr, exact, faRange)
            ELSE IF RowsHave(faArr, cap) THEN faOut = Within(faArr, cap, faRange)
            ELSE faOut = faArr

(* rows with both fields, holding different years: the range keeps a row by its
   exact field that the capitalized field would have dropped *)
C10_Witness ==
    /\ faDone /\ faRange # Null
    /\ Len(faArr) = 2
    /\ RowsHave(faArr, "year") /\ RowsHave(faArr, "Year")
    /\ Len(faOut) = 1
    /\ faOut[1].Year \notin faRange.min..faRange.max

----------------------------------------------------------------------------
(* Properties of the application shell (specification SpecApp) *)

(* C11: while the fullscreen overlay is open body overflow is 'hidden', and
   the step that closes it (close control or Escape) leaves body overflow at
   the value it had before the overlay opened, whatever the drawer does in
   between *)
C11_ScrollSuspendedAndRestored ==
    [][ /\ (isFullscreen' => bodyOverflow' = "hidden")
        /\ ((isFullscreen /\ ~isFullscreen') => bodyOverflow' = fsPrev) ]_vars

(* the messages of the list to which the onChunk callback of a pending call
   appends *)
Target(s) ==
    {i \in 1..Len(messages) :
        OnChunk(messages, s.id, "x")[i].content # messages[i].content}

(* the pending calls whose next character a step may have appended to
   message i *)
Feeds(i) ==
    {s \in streams :
        /\ s.id = messages[i].id
        /\ s.pos < Len(AnswerOf(s.q))
        /\ messages'[i].content = Append(messages[i].content, AnswerOf(s.q)[s.pos + 1])}

(* C12 as stated: two answers streaming at once are appended to the same
   message buffer *)
C12_SameMessageBuffer ==
    \A s, t \in streams : s.id # t.id => Target(s) \cap Target(t) # {}

(* C12: a question sent while an answer streams cancels no pending call, and
   every character delivered goes to the assistant message of its own call:
   no message receives characters of two answers (a content that changes
   otherwise is the apology of a failed call) *)
C12_OwnMessageBuffer ==
    [][ /\ (nextQuery' # nextQuery => streams \subseteq streams')
        /\ \A s, t \in streams : s.id # t.id => Target(s) \cap Target(t) = {}
        /\ (Len(messages') = Len(messages) =>
              \A i \in 1..Len(messages) :
                 (/\ messages'[i].content # messages[i].content
                  /\ messages'[i].content # Apology) => Feeds(i) # {}) ]_vars

(* two answers to different questions stream at once, both messages are in the
   list, one is complete and the other has received characters *)
C12_Witness ==
    \E s, t \in streams :
        /\ s.q # t.q
        /\ \E i, j \in 1..Len(messages) :
              /\ messages[i].id = s.id
              /\ messages[j].id = t.id
              /\ messages[i].content = AnswerOf(s.q)
              /\ Len(messages[j].content) >= 1
              /\ ~messages[i].suggestions

----------------------------------------------------------------------------
(* Properties of the tooltip elements (specification SpecTips) *)

(* C13: every drawn chart instance holds a tooltip element that is attached to
   the body and that no other drawn instance holds, whatever the other
   instances mount, redraw or unmount *)
C13_OwnTooltipElement ==
    \A c \in Charts :
        cleanupOf[c] # NoTip.id =>
            /\ tipOf[c] \in bodyTips
            /\ \A d \in Charts \ {c} : cleanupOf[d] # NoTip.id => tipOf[d] # tipOf[c]

----------------------------------------------------------------------------
(* Properties of loading, routing and the boundary (specification SpecLoad) *)

(* C14: once a fetch has been rejected, loadData has ended with loading false
   and error set to a failure message, no fetch is started again, and the page
   shows an error state, neither the spinner nor the dashboard content *)
C14_LoadFailureShown ==
    [][ (\E f \in Files : fetches'[f] = "rejected") =>
            /\ ~loading'
            /\ error' \in Messages
            /\ \A f \in Files : fetches[f] # "pending" => fetches'[f] = fetches[f]
            /\ PageView(route', loading', error', hasError') \notin
                  {"spinner", "dashboard"} ]_vars

(* C15: a page that throws while rendering is replaced by the fallback, the
   fallback goes away only through its 'Try again' button, and after a
   navigation to another route that route's page is shown, not the fallback *)
C15_FailureIsolatedToPage ==
    [][ /\ (~hasError /\ hasError' =>
               PageView(route', loading', error', hasError') = "fallback")
        /\ (hasError /\ ~hasError' => UNCHANGED <<route, loadVars>>)
        /\ (hasError /\ route' # route =>
               PageView(route', loading', error', hasError') # "fallback") ]_vars

----------------------------------------------------------------------------
(* Properties of the filter state (specification SpecState) *)

(* C16: the filters the chat responder receives as the active page filters,
   which are the store's filters object, are the filters applied to the
   charts of the page: the same trade type, and a year or mode exactly when the
   page has years or modes selected *)
C16_StoreFiltersArePageFilters ==
    /\ activeFiltersOf(filters).tradeType = tradeTypeFilter
    /\ (activeFiltersOf(filters).year = "" <=> yearFilter = {})
    /\ (activeFiltersOf(filters).mode = "" <=> modeFilter = {})

----------------------------------------------------------------------------
(* Properties of the CSV layout (specification SpecCsvShape) *)

(* C17: for an empty array nothing is downloaded; for a non-empty one the
   text starts with the byte-order mark, its first record lists the keys of
   the first row in their order, and every row gives one record with one field
   per key of the first row, in that order: the text of the row's value under
   that key, empty when the row has no such key *)
C17_HeaderAndRowLayout ==
    /\ Len(csvRows) = 0 => ~csvDone /\ csvText = <<>>
    /\ csvDone =>
        LET keys == KeysOf(csvRows[1])
            parsed == ParseCsv(Tail(csvText))
        IN  /\ Head(csvText) = BOM
            /\ Len(parsed) = Len(csvRows) + 1
            /\ parsed[1] = [j \in DOMAIN keys |-> KeyChars(keys[j])]
            /\ \A i \in DOMAIN csvRows :
                  /\ Len(parsed[i + 1]) = Len(keys)
                  /\ \A j \in DOMAIN keys :
                        parsed[i + 1][j] = TextOf(Field(csvRows[i], keys[j]))

(* a file written from two rows: the first holds both keys, the second lacks
   the second key *)
C17_Witness ==
    /\ csvDone
    /\ Len(csvRows) = 2
    /\ DOMAIN csvRows[1] = {"k1", "k2"}
    /\ DOMAIN csvRows[2] = {"k1"}
    /\ csvRows[2].k1 = <<Comma>>

----------------------------------------------------------------------------
(* Properties of the PNG export (specification SpecPng) *)

(* C18: an export of an SVG that measures zero width or zero height logs the
   zero-dimension warning, starts no image and triggers no download; an image
   that fails to load logs the load warning and triggers no download; no step
   that logs a warning triggers a download, and no download is ever made from
   an SVG with a zero dimension *)
C18_WarningAndNoDownload ==
    [][ /\ (exports' # exports /\ svg # NoSvg /\ (svg.w = 0 \/ svg.h = 0) =>
               /\ warnings' = Append(warnings, ZeroWarning)
               /\ downloads' = downloads
               /\ pending' = pending)
        /\ (pending' # pending /\ pending' \subseteq pending /\ downloads' = downloads =>
               warnings' = Append(warnings, LoadWarning))
        /\ (warnings' # warnings => downloads' = downloads)
        /\ \A i \in DOMAIN downloads' :
               downloads'[i].w > 0 /\ downloads'[i].h > 0 ]_vars

(* an export stopped by the zero-dimension guard and one stopped by the image
   failing to load: two warnings and no download *)
C18_Witness ==
    /\ warnings = <<ZeroWarning, LoadWarning>>
    /\ downloads = <<>>
    /\ pending = {}

(* C19: two exports of an SVG of the same measured width and height, with a
   title present in both or in neither and a subtitle present in both or in
   neither, give canvases of the same pixel width and height *)
C19_SameDimensions ==
    \A i, j \in DOMAIN downloads :
        (/\ downloads[i].w = downloads[j].w
         /\ downloads[i].h = downloads[j].h
         /\ (downloads[i].title = "" <=> downloads[j].title = "")
         /\ (downloads[i].subtitle = "" <=> downloads[j].subtitle = ""))
        => /\ downloads[i].width = downloads[j].width
           /\ downloads[i].height = downloads[j].height

(* the same chart exported twice under titles of different lengths *)
C19_Witness ==
    /\ Len(downloads) = 2
    /\ downloads[1].w = downloads[2].w
    /\ downloads[1].h = downloads[2].h
    /\ downloads[1].title = "T"
    /\ downloads[2].title = "Trade"
    /\ downloads[1].subtitle = downloads[2].subtitle
    /\ downloads[1].height = downloads[2].height

----------------------------------------------------------------------------
(* Properties of the line chart tooltip (specification SpecHover) *)

Abs(n) == IF n < 0 THEN 0 - n ELSE n

(* x is an x-value of the data and no x-value of the data is nearer to the
   pointer position num / den *)
NearestPresent(x, data, num, den) ==
    /\ x \in XValues(data) \ {NullYear}
    /\ \A other \in XValues(data) \ {NullYear} :
          Abs(x * den - num) <= Abs(other * den - num)

(* a step of the mousemove handler: the tooltip changes under the pointer
   while the page and the chart stay as they are *)
HoverStep ==
    /\ tooltip' # tooltip
    /\ tooltip'.mx # NoPointer
    /\ UNCHANGED <<pageVars, chartVars>>

(* C20: a pointer movement over a line chart whose data holds x-values leaves
   the tooltip shown at the x-value of the data nearest to the pointer, listing
   every series with a point at that x *)
C20_SnapsToNearestPresent ==
    [][ HoverStep /\ XValues(lineData) \ {NullYear} # {} =>
          /\ tooltip'.shown
          /\ NearestPresent(tooltip'.x, lineData,
                            InvertNum(chart, tooltip'.mx), InvertDen(chart))
          /\ tooltip'.names = PointsAt(lineData, tooltip'.x) ]_vars

----------------------------------------------------------------------------
(* C21: whenever the card's visible range is non-null, a line chart mounted in
   the card is displayed zoomed in (k > 1); stated for the card whose fullscreen
   copy is not open, where the inline chart is the only instance. A redraw
   after a change of data, filters or size never leaves a stale range behind. *)
C21_RangeOnlyWhileZoomed ==
    (~isFullscreen /\ zoomRange # Null) => (chart.drawn /\ chart.kn > ZoomSteps)

----------------------------------------------------------------------------
(* C22: under any interleaving of sendMessage calls, clearChat and stream
   completions, isLoading is true exactly while at least one sendMessage call
   has started and not yet finished. *)
C22_LoadingIffCallPending ==
    isLoading <=> streams # {}

----------------------------------------------------------------------------
(* C23: once clearChat has removed the messages of a call that is still
   streaming, the remaining chunks and the completion of that call change no
   message: a step of a pending call changes at most the message carrying its
   own assistant id and never the length of the list, so the list stays empty
   until the next sendMessage and the messages of later calls are left alone. *)
StreamStep(s) == StreamChunk(s) \/ StreamDone(s)

Orphan(s) == \A i \in 1..Len(messages) : messages[i].id # s.id

C23_ClearedStreamChangesNothing ==
    [][ /\ \A s \in streams :
              StreamStep(s) =>
                /\ Len(messages') = Len(messages)
                /\ \A i \in 1..Len(messages) :
                      messages[i].id # s.id => messages'[i] = messages[i]
                /\ Orphan(s) => messages' = messages
        /\ (messages = <<>> /\ messages' # <<>>) => nextQuery' = nextQuery + 1 ]_vars

(* the completion of a cleared call has run while a later call's messages are
   in the list and that call is still streaming *)
C23_Witness ==
    /\ ~isLoading
    /\ chatError = NoError
    /\ messages # <<>>
    /\ \E s \in streams : ~Orphan(s)

----------------------------------------------------------------------------
(* C24: for any sequence of possibly overlapping loadData calls the four
   datasets of the store are either all unloaded or all those of one single
   successful call, never a partial or mixed set, and a call that fails leaves
   the stored datasets as they were. *)
FromCall(n) ==
    /\ calls[n].state = "fulfilled"
    /\ usAggregated = ParsedCsv("us_aggregated", n)
    /\ txBorderPorts = ParsedCsv("tx_border_ports", n)
    /\ btsUsState = ParsedCsv("bts_us_state", n)
    /\ masterData = ParsedCsv("master_data", n)

NoneLoaded ==
    /\ usAggregated = <<>>
    /\ txBorderPorts = <<>>
    /\ btsUsState = <<>>
    /\ masterData = <<>>

C24_DatasetsFromOneCall ==
    /\ [](NoneLoaded \/ \E n \in 1..Len(calls) : FromCall(n))
    /\ [][ \A n \in 1..Len(calls) :
              (calls[n].state = "pending" /\ calls'[n].state = "rejected")
                 => UNCHANGED <<usAggregated, txBorderPorts, btsUsState, masterData>> ]_vars

(* two calls overlapped: the first failed after the second had started, and
   the store holds the datasets of the second *)
C24_Witness ==
    /\ Len(calls) >= 2
    /\ calls[1].state = "rejected"
    /\ error # NoError
    /\ FromCall(2)

----------------------------------------------------------------------------
(* C25: when the responder throws during a sendMessage call, the call ends
   with isLoading false and error set to the exception message, the content of
   that call's assistant placeholder is the fixed apology text, and every
   other message of the list is unchanged. *)
Caught(before, assistantId, msg) ==
    /\ ~isLoading'
    /\ chatError' = msg
    /\ Len(messages') = Len(before)
    /\ \A i \in 1..Len(before) :
          IF before[i].id = assistantId
          THEN messages'[i] = [before[i] EXCEPT !.content = Apology]
          ELSE messages'[i] = before[i]

C25_ThrowEndsCallWithApology ==
    [][ /\ \A s \in streams, msg \in Thrown :
              StreamThrows(s, msg) => Caught(messages, s.id, msg)
        /\ \A q \in Questions, msg \in Thrown :
              SendThrows(q, msg) =>
                 Caught(Appended(messages, nextQuery, q), AssistantId(nextQuery), msg)
      ]_vars

(* a call has failed after another call had delivered part of its answer: one
   placeholder carries the apology, another assistant message its own text *)
C25_Witness ==
    /\ ~isLoading
    /\ chatError \in Thrown
    /\ \E i, j \in 1..Len(messages) :
          /\ messages[i].role = "assistant" /\ messages[i].content = Apology
          /\ messages[j].role = "assistant" /\ messages[j].content # Apology
          /\ messages[j].content # <<>>

----------------------------------------------------------------------------
(* Properties of the data table (specification SpecTable) *)

(* C26: the page index p always satisfies 0 <= p <= max(0, totalPages - 1);
   every sort click, data change and page-size change sets it to 0; after a
   step of the Next button the Prev button is enabled. *)
PageInRange ==
    /\ 0 <= page
    /\ page <= (IF totalPagesOf(tblData, pageSize) - 1 < 0 THEN 0
                ELSE totalPagesOf(tblData, pageSize) - 1)

C26_PageIndexInRange ==
    /\ []PageInRange
    /\ [][ /\ (\E key \in Columns : handleSort(key)) => page' = 0
           /\ tblData' # tblData => page' = 0
           /\ pageSize' # pageSize => page' = 0
           /\ NextPage => (page' = page + 1 /\ PrevEnabled(tblData', page', pageSize')) ]_vars

(* the table shows the last of three pages *)
C26_Witness ==
    /\ page = 2
    /\ totalPagesOf(tblData, pageSize) = 3
    /\ PrevEnabled(tblData, page, pageSize)
    /\ ~NextEnabled(tblData, page, pageSize)

(* C27: a click on a header that is not the sort column sorts ascending by
   that column, a click on the sort column toggles between ascending and
   descending; in either direction the rows shown are a permutation of the
   input rows, ordered by that column's values in the selected direction
   (rows without a value in the column have no place in that order). *)
Occurrences(s, r) == Cardinality({i \in 1..Len(s) : s[i] = r})

IsPermutation(s, t) ==
    /\ Len(s) = Len(t)
    /\ \A r \in TableRowSet : Occurrences(s, r) = Occurrences(t, r)

(* the value of a cell as a position in the order of its column *)
CellRank(row, key) ==
    IF key = "TotalTrade" THEN row.TotalTrade ELSE LocaleRank(row.State)

OrderedBy(s, key, dir) ==
    \A i, j \in 1..Len(s) :
        (i < j /\ ~IsNullCell(s[i], key) /\ ~IsNullCell(s[j], key)) =>
            IF dir = "asc" THEN CellRank(s[i], key) <= CellRank(s[j], key)
            ELSE CellRank(s[i], key) >= CellRank(s[j], key)

C27_SortByClickedColumn ==
    /\ [](sortKey # NoKey =>
            /\ IsPermutation(sortedOf(tblData, sortKey, sortDir), tblData)
            /\ OrderedBy(sortedOf(tblData, sortKey, sortDir), sortKey, sortDir))
    /\ [][ \A key \in Columns :
              handleSort(key) =>
                 /\ sortKey' = key
                 /\ (key # sortKey => sortDir' = "asc")
                 /\ (key = sortKey => sortDir' # sortDir) ]_vars

(* the table is sorted descending by the number column, the rows shown are not
   in input order, and one of them has no value in the column *)
C27_Witness ==
    /\ sortKey = "TotalTrade"
    /\ sortDir = "desc"
    /\ sortedOf(tblData, sortKey, sortDir) # tblData
    /\ \E i, j \in 1..Len(tblData) :
          /\ IsNullCell(tblData[i], sortKey)
          /\ ~IsNullCell(tblData[j], sortKey)
          /\ tblData[j].TotalTrade # 3
    /\ \E j \in 1..Len(tblData) : tblData[j].TotalTrade = 3

----------------------------------------------------------------------------
(* Properties of the multi-select filter (specification SpecMulti) *)

(* C28: after any sequence of option toggles the selected array holds no value
   twice and is never the complete option set; selecting the last unselected
   option yields the empty array, and the empty array restricts nothing. *)
NoDuplicates(arr) == \A i, j \in 1..Len(arr) : arr[i] = arr[j] => i = j

RangeOf(arr) == {arr[i] : i \in 1..Len(arr)}

C28_NeverCompleteNoDuplicates ==
    /\ [](/\ NoDuplicates(msValue)
          /\ RangeOf(msValue) # RangeOf(msOptions)
          /\ (msValue = <<>> =>
                \A cell \in RangeOf(msOptions) \cup {0} : passesMulti(msValue, cell)))
    /\ [][ \A val \in 1..MaxOptions :
              (ToggleOption(val) /\ RangeOf(msValue) \cup {val} = RangeOf(msOptions)
                 /\ ~Includes(msValue, val))
              => msValue' = <<>> ]_vars

(* all options but one are selected, in an order other than that of the list *)
C28_Witness ==
    /\ Len(msOptions) >= 3
    /\ Len(msValue) = Len(msOptions) - 1
    /\ msValue[1] > msValue[2]
    /\ msOpen

----------------------------------------------------------------------------
(* C29: a step of "Reset all filters" on the TradeByState page leaves the year
   and mode selections empty and the trade type "", the active-filter count 0,
   the reset-all control not rendered, and the filtered rows equal to the full
   dataset. *)
C29_ResetAllClearsEverything ==
    [][ resetFilters =>
          /\ yearFilter' = {}
          /\ tradeTypeFilter' = ""
          /\ modeFilter' = {}
          /\ activeFilters' = 0
          /\ ~ResetAllShown(TRUE, activeFilters')
          /\ filteredOf(btsUsState', yearFilter', tradeTypeFilter', modeFilter')
               = btsUsState' ]_vars

(* all three filters are active, rows are filtered out, and the control is shown *)
C29_Witness ==
    /\ route = "/trade-by-state"
    /\ activeFilters = 3
    /\ Len(filtered) < Len(btsUsState)
    /\ ResetAllShown(TRUE, activeFilters)

----------------------------------------------------------------------------
(* the elements of a tree: the node and all its descendants *)
RECURSIVE Elements(_)
Elements(node) ==
    {node} \cup UNION {Elements(node.children[i]) : i \in DOMAIN node.children}

(* no element of the clone is flagged export-ignore *)
NoIgnoredLeft == \A e \in Elements(cloneTree) : ~e.ignore

(* C30: in the clone of an export that reached the image, no element flagged
   export-ignore remains and every element carries as its inline style the
   computed style of the live element it was cloned from, whatever the
   position of the flagged elements among their siblings. *)
C30_CloneStyledFromItsSource ==
    pending # {} =>
        /\ NoIgnoredLeft
        /\ \A e \in Elements(cloneTree) :
              \E src \in Elements(svgTree) : src.id = e.id /\ e.style = src.css

(* the flagged elements are gone from every clone *)
C30_NoIgnoredRemains == pending # {} => NoIgnoredLeft

(* a flagged element precedes a kept sibling with another computed style *)
C30_IgnoredBeforeSibling ==
    /\ pending # {}
    /\ \E i \in DOMAIN svgTree.children :
          /\ i < Len(svgTree.children)
          /\ svgTree.children[i].ignore
          /\ ~svgTree.children[i + 1].ignore
          /\ svgTree.children[i].css # svgTree.children[i + 1].css

(* where every flagged element is the last of its siblings, as the reset
   control of the LineChart is, every element of the clone carries the style
   of its own source *)
LastOfSiblings(node) ==
    \A i \in DOMAIN node.children : node.children[i].ignore => i = Len(node.children)

C30_StyledWhenIgnoredLast ==
    (pending # {} /\ \A n \in Elements(svgTree) : LastOfSiblings(n)) =>
        \A e \in Elements(cloneTree) :
            \E src \in Elements(svgTree) : src.id = e.id /\ e.style = src.css

====
